---- MODULE Spec2Model ----
(***************************************************************************)
(* The address discovery / reconciliation state machine of the UTXO wallet *)
(* engine (makeUtxoEngineState): the lookahead generator, the fresh-index  *)
(* finder, the per-address processor, the scan driver and the facade.      *)
(*                                                                         *)
(* JavaScript runs one callback at a time: every action below is the code  *)
(* that runs between two awaits of one async function.  A store read or an *)
(* indexer request is answered in the step that follows the await; an      *)
(* indexer answer is captured in one step and used in the next, so that it *)
(* can be stale when it is applied.                                        *)
(***************************************************************************)
EXTENDS Integers, Sequences, FiniteSets, TLC

\* ------------------------------------------------------------------ bounds
\* largest gap limit a wallet is configured with
MaxGap == 2
\* number of events from outside in a run: changes of the indexer's data and
\* markAddressUsed calls of the host
MaxEvents == 1
\* number of addresses the first lookahead creates in a run with such events
MaxInitial == 2
\* address indices of a branch that the indexer may report as used
HotIdx == 2
\* address indices per branch that the model provides room for
MaxIdx == 10

\* the script hashes of each size that are converted to a cash address
MaxSeed == 2
\* largest address count of the branch that findFreshIndex is called on by itself
MaxCount == 5
\* largest totalPages the indexer answers, and most transactions of a page
MaxPages == 3
MaxTxs == 2
\* connections the server pool keeps open (MAX_CONNECTIONS of ./constants)
MAX_CONNECTIONS == 2
\* events from outside the server pool in a run: refillServers and stop calls
\* of the host, sockets that close
MaxPoolEvents == 3
\* addresses and txids the server states can hold
MaxWatched == 2
MaxTxids == 1

\* ------------------------------------------------- path algebra (utils.ts)
Formats == {"bip32", "bip44", "bip49", "bip84"}
Purposes == {"Legacy", "Airbitz", "WrappedSegwit", "Segwit"}

currencyFormatToPurposeType(format) ==
  CASE format = "bip32" -> "Legacy"
    [] format = "bip44" -> "Airbitz"
    [] format = "bip49" -> "WrappedSegwit"
    [] format = "bip84" -> "Segwit"

getCurrencyFormatFromPurposeType(p) ==
  CHOOSE f \in Formats : currencyFormatToPurposeType(f) = p

\* supportedBranches(format): {0} for legacy and Airbitz, {0,1} otherwise
getFormatSupportedBranches(format) ==
  IF currencyFormatToPurposeType(format) \in {"Legacy", "Airbitz"}
  THEN <<0>> ELSE <<0, 1>>

BranchSet(format) ==
  {getFormatSupportedBranches(format)[n] :
     n \in 1..Len(getFormatSupportedBranches(format))}

\* the formats a wallet of a purpose type declares, in the order start() maps them
getWalletSupportedFormats(p) ==
  IF p = "Segwit" THEN <<"bip49", "bip84">>
  ELSE <<getCurrencyFormatFromPurposeType(p)>>

\* ------------------------------------------------------------- the universe
\* a scriptPubkey is identified with the path the keymanager derives it from
Key(f, b, i) == <<f, b, i>>
NoKey == <<"none", 0, 0>>

UtxoIds == {"A0", "A1"}

\* what the indexer can say about one address
Profiles ==
  << [txs |-> 0, unconfirmedTxs |-> 0, balance |-> 0, unconfirmedBalance |-> 0,
      utxos |-> {}],
     [txs |-> 2, unconfirmedTxs |-> 0, balance |-> 1500, unconfirmedBalance |-> 0,
      utxos |-> {"A0", "A1"}],
     [txs |-> 2, unconfirmedTxs |-> 1, balance |-> 1500, unconfirmedBalance |-> 0 - 800,
      utxos |-> {"A0"}] >>
Cold == 1
Funded == 2
Spending == 3

\* the history of an address on the chain: it receives two confirmed outputs,
\* then one of them is spent by an unconfirmed transaction, then that
\* transaction and the outputs are dropped (a reorganisation)
NextProfile(p) == IF p = Spending THEN Cold ELSE p + 1

VARIABLES
  gapLimit,        \* currencyInfo.gapLimit
  purpose,         \* getPurposeTypeFromKeys(walletInfo)
  hot,             \* the address that receives funds and that the host spends from
  started,         \* start() has been called and its promise has resolved
  addrs,           \* processor: AddressRecord by scriptPubkey
  utxos,           \* processor: the stored UTXOs, <<scriptPubkey, id>>
  chain,           \* the indexer's data: the profile of the addresses with history
  addressesToWatch,\* the watch set
  lastSub,         \* the addresses of the last blockBook.watchAddresses call
  subsBy,          \* per address: the watchAddresses calls its processAddress made
  mutex,           \* async-mutex: the calls of acquire / runExclusive, in order
  la,              \* locals of the setLookAhead invocations inside their try block
  ftask,           \* per declared format: the async task start() dispatched
  tasks,           \* the processAddress invocations in flight
  processedCount,  \* start(): processedCount
  lastRatio,       \* the last ADDRESSES_CHECKED event: <<processedCount, totalCount>>
  balEvents,       \* the balances carried by the BALANCE_CHANGED events so far
  flipped,         \* addresses a processAddress saw go from unused to used
  lastReport,      \* per address: what its last reconciliation was told by the indexer
  marked,          \* addresses markAddressUsed ran for since their last reconciliation
  changes,         \* indexer changes so far
  marks,           \* markAddressUsed calls so far
  laCreated,       \* addresses whose record a setLookAhead has created
  pathSaved,       \* addresses a setLookAhead has saved with their path
  inspected,       \* addresses for which a processAddress call has returned
  stopped,         \* stop() has been called
  failed,          \* addresses whose processAddress promise was rejected
  faults,          \* failed indexer or store calls so far
  imports,         \* the addGapLimitAddresses calls: address, record read, position
  cash,            \* a cash address conversion: its arguments and its results
  finder,          \* a findFreshIndex call: its argument, its invocations, its result
  pager,           \* a processAddressTransactions call: the indexer's pages, its requests
  pool,            \* makeServerStates: connections, serverStates, timers, listeners
  affinity,        \* makeServerStates: the addresses and txids of the server states
  obs              \* what the last step returned to its caller (facade results)

vars == <<gapLimit, purpose, hot, started, addrs, utxos, chain, addressesToWatch,
          lastSub, subsBy, mutex,
          la, ftask, tasks, processedCount, lastRatio, balEvents, flipped,
          lastReport, marked, changes, marks, laCreated, pathSaved, inspected, stopped,
          failed,
          faults,
          imports, cash, finder, pager, pool, affinity, obs>>

\* the formats getWalletSupportedFormats(walletInfo) returns
Declared == {getWalletSupportedFormats(purpose)[n] :
               n \in 1..Len(getWalletSupportedFormats(purpose))}

\* the scriptPubkeys of the wallet
Keys == Declared \X {0, 1} \X (0..(MaxIdx - 1))

\* ---------------------------------------------------- the store (Processor)
NoRec == [ex |-> FALSE, path |-> FALSE, used |-> FALSE, balance |-> 0]

\* the store with the record of key k replaced by r, or with r added
Put(store, k, r) == [x \in DOMAIN store \cup {k} |-> IF x = k THEN r ELSE store[x]]

\* fetchAddressByScriptPubkey: the record, or none
Rec(k) == IF k \in DOMAIN addrs THEN addrs[k] ELSE NoRec

\* fetchUtxosByScriptPubkey: the ids of the stored UTXOs of an address
UtxosOf(k) == {u[2] : u \in {v \in utxos : v[1] = k}}

\* the indexer's profile of an address: one without history unless recorded
ChainOf(k) == IF k \in DOMAIN chain THEN chain[k] ELSE Cold

LastReport(k) == IF k \in DOMAIN lastReport THEN lastReport[k] ELSE "none"

\* fetchAddressCountFromPathPartition: maximum addressIndex + 1 of the branch
fetchAddressCountFromPathPartition(f, b) ==
  LET S == {k[3] : k \in {x \in DOMAIN addrs :
                             x[1] = f /\ x[2] = b /\ addrs[x].path}}
  IN IF S = {} THEN 0 ELSE (CHOOSE i \in S : \A j \in S : j <= i) + 1

\* fetchScriptPubkeyByPath: is a record with this path stored
PathKnown(f, b, i) ==
  /\ Rec(Key(f, b, i)).ex
  /\ Rec(Key(f, b, i)).path

\* ------------------------------------------------------- fresh-index finder
Thrown == 0 - 1

RECURSIVE findFreshIndex(_, _, _)
findFreshIndex(f, b, i) ==
  IF i >= fetchAddressCountFromPathPartition(f, b) THEN i
  ELSE IF ~PathKnown(f, b, i) THEN Thrown
  ELSE IF ~Rec(Key(f, b, i)).used /\ i > 0
       THEN IF ~PathKnown(f, b, i - 1) THEN Thrown
            ELSE IF Rec(Key(f, b, i - 1)).used THEN i
            ELSE IF i > 1 THEN findFreshIndex(f, b, i - 2)
            ELSE i
  ELSE IF Rec(Key(f, b, i)).used THEN findFreshIndex(f, b, i + 1)
  ELSE i

\* a backward step that stays at the index
BackStepStay(i) == i

\* path.addressIndex -= 2
BackStep(i) == i - 2

\* one invocation of findFreshIndex with path.addressIndex = i: the store reads
\* it awaits, and either the value it returns (Thrown if fetchAddressDataByPath
\* throws) or the index it calls itself with
FindFreshStep(f, b, i) ==
  IF i >= fetchAddressCountFromPathPartition(f, b)
  THEN [done |-> TRUE, i |-> i, reads |-> 1]
  ELSE IF ~PathKnown(f, b, i) THEN [done |-> TRUE, i |-> Thrown, reads |-> 2]
  ELSE IF ~Rec(Key(f, b, i)).used /\ i > 0
       THEN IF ~PathKnown(f, b, i - 1) THEN [done |-> TRUE, i |-> Thrown, reads |-> 3]
            ELSE IF Rec(Key(f, b, i - 1)).used THEN [done |-> TRUE, i |-> i, reads |-> 3]
            ELSE IF i > 1 THEN [done |-> FALSE, i |-> BackStep(i), reads |-> 3]
            ELSE [done |-> TRUE, i |-> i, reads |-> 3]
  ELSE IF Rec(Key(f, b, i)).used THEN [done |-> FALSE, i |-> i + 1, reads |-> 2]
  ELSE [done |-> TRUE, i |-> i, reads |-> 2]

getFreshIndex(f, b, find) ==
  LET addressIndex == fetchAddressCountFromPathPartition(f, b) - gapLimit
  IN IF addressIndex < 0 THEN 0
     ELSE IF find THEN findFreshIndex(f, b, addressIndex)
     ELSE addressIndex


\* getFormatAddressCount / getTotalAddressCount: the denominator of the progress
BranchFloor(branchCount) ==
  IF branchCount < gapLimit THEN gapLimit ELSE branchCount

RECURSIVE SumSeq(_)
SumSeq(s) == IF s = <<>> THEN 0 ELSE Head(s) + SumSeq(Tail(s))

getFormatAddressCount(f) ==
  SumSeq([n \in 1..Len(getFormatSupportedBranches(f)) |->
            BranchFloor(fetchAddressCountFromPathPartition(
                          f, getFormatSupportedBranches(f)[n]))])

getTotalAddressCount ==
  SumSeq([n \in 1..Len(getWalletSupportedFormats(purpose)) |->
            getFormatAddressCount(getWalletSupportedFormats(purpose)[n])])

\* the reads of processor.fetchAddressCountFromPathPartition that one call of
\* getTotalAddressCount awaits, in their order: the formats, and the branches
\* of each
RECURSIVE CountReads(_)
CountReads(fs) ==
  IF fs = <<>> THEN <<>>
  ELSE [n \in 1..Len(getFormatSupportedBranches(Head(fs))) |->
          <<Head(fs), getFormatSupportedBranches(Head(fs))[n]>>]
       \o CountReads(Tail(fs))

\* ------------------------------------------------------------ small helpers

\* bs.add(accountDetails.balance, accountDetails.unconfirmedBalance)
BalanceOf(det) == Profiles[det].balance + Profiles[det].unconfirmedBalance

\* the comparison with >= in place of >
UsedOfAtLeast(det) == Profiles[det].txs >= 0 \/ Profiles[det].unconfirmedTxs > 0

\* accountDetails.txs > 0 || accountDetails.unconfirmedTxs > 0
UsedOf(det) == Profiles[det].txs > 0 \/ Profiles[det].unconfirmedTxs > 0

\* the loop bound with one address too many (i <= freshIndex + gapLimit)
LookAheadOneMore(freshIndex) == freshIndex + gapLimit + 1

\* a lookahead loop that leaves out the first missing index
LoopStartSkip(addressCount) == addressCount + 1

\* the start of the lookahead loop: let i = addressCount
LoopStart(addressCount) == addressCount

\* the bound of the lookahead loop: i < freshIndex + currencyInfo.gapLimit
LookAheadTarget(freshIndex) == freshIndex + gapLimit


\* --------------------------------------------------------- cash addresses
\* A BN of polymod is kept as two limbs <<high, low>> of LimbBits bits each:
\* the checksum has 40 bits.  The helpers are functions, which are applied to
\* values, and a loop over an array is computed as a fold of its turns in
\* which the array is halved; the turns are applied from the first to the last.
LimbBits == 20
Limb == 2 ^ LimbBits
BN == Nat \X Nat

XorBits[a \in Nat, b \in Nat, n \in Nat] ==
  IF n = 0 THEN 0
  ELSE ((a + b) % 2) + 2 * XorBits[a \div 2, b \div 2, n - 1]

AndBits[a \in Nat, b \in Nat, n \in Nat] ==
  IF n = 0 THEN 0
  ELSE ((a % 2) * (b % 2)) + 2 * AndBits[a \div 2, b \div 2, n - 1]

BNOne == <<0, 1>>
BNxor[x \in BN, y \in BN] ==
  <<XorBits[x[1], y[1], LimbBits], XorBits[x[2], y[2], LimbBits]>>
BNand[x \in BN, y \in BN] ==
  <<AndBits[x[1], y[1], LimbBits], AndBits[x[2], y[2], LimbBits]>>
BNshrn[x \in BN, n \in Nat] ==
  IF n >= LimbBits THEN <<0, x[1] \div (2 ^ (n - LimbBits))>>
  ELSE <<x[1] \div (2 ^ n),
         (x[2] \div (2 ^ n)) + (x[1] % (2 ^ n)) * (2 ^ (LimbBits - n))>>
BNshln[x \in BN, n \in Nat] ==
  <<x[1] * (2 ^ n) + (x[2] \div (2 ^ (LimbBits - n))), (x[2] * (2 ^ n)) % Limb>>
BNeqn(x, n) == x = <<0, n>>
BNtoNumber(x) == x[1] * Limb + x[2]

\* 0x98f2bc8e61, 0x79b76d99e2, 0xf33e5fb3c4, 0xae2eabe2a8, 0x1e4f43e470
GENERATOR ==
  <<<<626475, 822881>>, <<498550, 891362>>, <<996325, 1029060>>,
    <<713450, 778920>>, <<124148, 255088>>>>

\* the inner loop of polymod over the generators
ApplyGenerators[checksum \in BN, topBits \in BN, i \in Nat] ==
  IF i >= Len(GENERATOR) THEN checksum
  ELSE ApplyGenerators[
         IF BNeqn(BNand[BNshrn[topBits, i], BNOne], 1)
         THEN BNxor[checksum, GENERATOR[i + 1]] ELSE checksum,
         topBits, i + 1]

\* one turn of the outer loop of polymod; C = 0x07ffffffff
PolymodStep[checksum \in BN, value \in Nat] ==
  ApplyGenerators[
    BNxor[BNshln[BNand[checksum, <<32767, 1048575>>], 5], <<0, value>>],
    BNshrn[checksum, 35], 0]

polymod(data) ==
  LET loop[lo \in Nat, hi \in Nat, checksum \in BN] ==
        IF lo > hi THEN checksum
        ELSE IF lo = hi THEN PolymodStep[checksum, data[lo]]
        ELSE loop[((lo + hi) \div 2) + 1, hi, loop[lo, (lo + hi) \div 2, checksum]]
  IN BNxor[loop[1, Len(data), BNOne], BNOne]

\* what convertBits returns when it throws
Invalid == <<-1>>

\* the while loop of convertBits: the full groups of the accumulator are pushed
Drain[accumulator \in Nat, bits \in Nat, to \in Nat, result \in Seq(Nat)] ==
  IF bits >= to
  THEN Drain[accumulator, bits - to, to,
             Append(result, (accumulator \div (2 ^ (bits - to))) % (2 ^ to))]
  ELSE <<bits, result>>

\* the bits of the accumulator of convertBits that are kept: it is a 32-bit
\* integer that is never masked, and at most its bits + from <= 12 lowest bits
\* are read
AccBits == 20

\* one turn of the for loop of convertBits: st is <<accumulator, bits, result>>,
\* bits is -1 once a value was refused
ConvertStep[st \in Int \X Int \X Seq(Int), value \in Int, from \in Nat, to \in Nat] ==
  IF st[2] < 0 \/ value < 0 \/ value \div (2 ^ from) # 0 THEN <<0, -1, Invalid>>
  ELSE LET d == Drain[(st[1] * (2 ^ from) + value) % (2 ^ AccBits),
                      st[2] + from, to, st[3]]
       IN <<(st[1] * (2 ^ from) + value) % (2 ^ AccBits), d[1], d[2]>>

convertBits(data, from, to, strict) ==
  LET loop[lo \in Nat, hi \in Nat, st \in Int \X Int \X Seq(Int)] ==
        IF lo > hi THEN st
        ELSE IF lo = hi THEN ConvertStep[st, data[lo], from, to]
        ELSE loop[((lo + hi) \div 2) + 1, hi, loop[lo, (lo + hi) \div 2, st]]
      r == loop[1, Len(data), <<0, 0, <<>>>>]
      accumulator == r[1]
      bits == r[2]
      result == r[3]
      pad == IF bits < 0 THEN 0 ELSE (accumulator * (2 ^ (to - bits))) % (2 ^ to)
  IN IF bits < 0 THEN Invalid
     ELSE IF ~strict THEN (IF bits > 0 THEN Append(result, pad) ELSE result)
     ELSE IF bits >= from \/ pad # 0 THEN Invalid
     ELSE result

\* base32: the characters of the cash address format
CHARSET ==
  <<"q", "p", "z", "r", "y", "9", "x", "8", "g", "f", "2", "t", "v", "d", "w", "0",
    "s", "3", "j", "n", "5", "4", "k", "h", "c", "e", "6", "m", "u", "a", "7", "l">>

encode(data) == [i \in 1..Len(data) |-> CHARSET[data[i] + 1]]

decode(str) ==
  [i \in 1..Len(str) |->
     IF \E n \in 1..Len(CHARSET) : CHARSET[n] = str[i]
     THEN (CHOOSE n \in 1..Len(CHARSET) : CHARSET[n] = str[i]) - 1
     ELSE -1]

LowerCase ==
  <<"a", "b", "c", "d", "e", "f", "g", "h", "i", "j", "k", "l", "m", "n", "o", "p",
    "q", "r", "s", "t", "u", "v", "w", "x", "y", "z">>

UpperCase ==
  <<"A", "B", "C", "D", "E", "F", "G", "H", "I", "J", "K", "L", "M", "N", "O", "P",
    "Q", "R", "S", "T", "U", "V", "W", "X", "Y", "Z">>

\* String.charCodeAt of a lower case letter
charCodeAt(c) == 96 + (CHOOSE n \in 1..Len(LowerCase) : LowerCase[n] = c)

prefixToArray(prefix) == [i \in 1..Len(prefix) |-> charCodeAt(prefix[i]) % 32]

\* cashaddrPrefixEnum
Mainnet == <<"b", "i", "t", "c", "o", "i", "n", "c", "a", "s", "h">>
Testnet == Mainnet \o <<"t", "e", "s", "t", "n", "e", "t">>
cashaddrPrefixEnum == <<Mainnet, Testnet>>

\* cashaddrTypeEnum
cashaddrTypeEnum == {"pubkeyhash", "scripthash"}

\* hashToCashAddress: the type bits of a type that is no member of the enum
getTypeBitsSame(type) == 0

getTypeBits(type) == IF type = "pubkeyhash" THEN 0 ELSE 8

\* the hash sizes of the version byte, in bits, by their size bits 0..7
HashSizes == <<160, 192, 224, 256, 320, 384, 448, 512>>

getHashSizeBits(hash) ==
  IF \E n \in 1..Len(HashSizes) : HashSizes[n] = Len(hash) * 8
  THEN (CHOOSE n \in 1..Len(HashSizes) : HashSizes[n] = Len(hash) * 8) - 1
  ELSE -1

\* the loop of checksumToArray and its result.reverse()
ChecksumLoop[checksum \in BN, i \in Nat, result \in Seq(Nat)] ==
  IF i >= 8 THEN result
  ELSE ChecksumLoop[BNshrn[checksum, 5], i + 1,
                    <<BNtoNumber(BNand[checksum, <<0, 31>>])>> \o result]

\* the 8 groups of 5 bits of the checksum, the highest first
checksumToArray(checksum) == ChecksumLoop[checksum, 0, <<>>]

hashToCashAddress(scriptHash, type, prefix) ==
  LET eight0 == <<0, 0, 0, 0, 0, 0, 0, 0>>
      prefixData == prefixToArray(prefix) \o <<0>>
      versionByte == getTypeBits(type) + getHashSizeBits(scriptHash)
      payloadData == convertBits(<<versionByte>> \o scriptHash, 8, 5, FALSE)
      checksumData == prefixData \o payloadData \o eight0
      payload == payloadData \o checksumToArray(polymod(checksumData))
  IN prefix \o <<":">> \o encode(payload)

getHashSize(versionByte) == HashSizes[(versionByte % 8) + 1]

hasSingleCase(string) ==
  \/ \A i \in 1..Len(string) : \A n \in 1..Len(UpperCase) : string[i] # UpperCase[n]
  \/ \A i \in 1..Len(string) : \A n \in 1..Len(LowerCase) : string[i] # LowerCase[n]

validChecksum(prefix, payload) ==
  BNeqn(polymod(prefixToArray(prefix) \o <<0>> \o payload), 0)

\* what cashAddressToHash returns when it throws
BadInfo == [ok |-> FALSE, scriptHash |-> <<>>, type |-> "none"]

\* cashAddressToHash after the prefix was found
HashOfPayload(payload) ==
  LET convertedBits == convertBits(SubSeq(payload, 1, Len(payload) - 8), 5, 8, TRUE)
      versionByte == Head(convertedBits)
      hash == Tail(convertedBits)
  IN IF convertedBits = Invalid \/ convertedBits = <<>> THEN BadInfo
     ELSE IF getHashSize(versionByte) # Len(hash) * 8 THEN BadInfo
     ELSE IF AndBits[versionByte, 120, 8] = 0
     THEN [ok |-> TRUE, scriptHash |-> hash, type |-> "pubkeyhash"]
     ELSE IF AndBits[versionByte, 120, 8] = 8
     THEN [ok |-> TRUE, scriptHash |-> hash, type |-> "scripthash"]
     ELSE BadInfo

cashAddressToHash(address) ==
  LET colons == {i \in 1..Len(address) : address[i] = ":"}
      at == IF colons = {} THEN 0 ELSE CHOOSE i \in colons : TRUE
      payload == decode(SubSeq(address, at + 1, Len(address)))
  IN IF ~hasSingleCase(address) \/ Cardinality(colons) > 1 THEN BadInfo
     ELSE IF Len(payload) < 8 \/ \E i \in 1..Len(payload) : payload[i] < 0 THEN BadInfo
     ELSE IF colons # {}
     THEN (IF validChecksum(SubSeq(address, 1, at - 1), payload)
           THEN HashOfPayload(payload) ELSE BadInfo)
     ELSE IF \E n \in 1..Len(cashaddrPrefixEnum) :
               validChecksum(cashaddrPrefixEnum[n], payload)
     THEN HashOfPayload(payload)
     ELSE BadInfo

\* the script hashes of the test: the hashes of 1LqBGSKuX5yYUonjxT5qGfpUsXKYYWeabA
\* and of 37VucYSaXLCAsxYyAPfbSi9eh4iEcbShgf
TestPubkeyHash ==
  <<217, 134, 237, 1, 183, 162, 34, 37, 167, 14, 219, 242, 186, 124, 251, 99, 161, 92,
    179, 170>>
TestScriptHash ==
  <<63, 182, 233, 88, 18, 229, 123, 180, 105, 31, 154, 74, 98, 136, 98, 166, 26, 79,
    118, 155>>

\* a script hash of n bytes
PatternHash(n, seed) == [i \in 1..n |-> (seed * 97 + i * (29 + 2 * seed)) % 256]

\* the script hashes that are converted: the two of the test, and MaxSeed
\* hashes of each supported size
CashHashes ==
  {TestPubkeyHash, TestScriptHash} \cup
  {PatternHash(HashSizes[n] \div 8, seed) : n \in 1..Len(HashSizes), seed \in 1..MaxSeed}

\* no cash address is converted
NoCash ==
  [pc |-> "off", hash |-> <<>>, type |-> "pubkeyhash", prefix |-> <<>>,
   address |-> <<>>, info |-> BadInfo]

\* no findFreshIndex call is followed
NoFinder ==
  [pc |-> "off", start |-> 0, i |-> 0, calls |-> 0, reads |-> 0, visited |-> {},
   twice |-> FALSE, fwd |-> FALSE, back |-> FALSE, osc |-> FALSE]

\* the answer of the indexer carries no totalPages
Missing == 0 - 1

\* no processAddressTransactions call is followed
NoPager ==
  [pc |-> "off", totalPages |-> Missing, txs |-> <<>>, page |-> 1,
   fetched |-> <<>>, emitted |-> <<>>, saved |-> {}]

\* the servers pluginState.getServers(NEW_CONNECTIONS, ['wss:']) returns
Servers == {"s1", "s2", "s3"}

\* no server pool is followed
NoPool ==
  [pc |-> "off", engineStarted |-> FALSE, connections |-> {}, serverStates |-> <<>>,
   serverList |-> {}, listeners |-> {}, pending |-> {}, live |-> {},
   queued |-> FALSE, timer |-> FALSE, orphans |-> 0, reconnectCounter |-> 0,
   cur |-> "none", events |-> 0]

\* no server states are followed
NoAffinity ==
  [pc |-> "off", serverStates |-> <<>>, uri |-> "none", item |-> 0, res |-> FALSE]

NoObs == [kind |-> "none", key |-> NoKey, below |-> FALSE, ci |-> 0, res |-> <<>>,
          ret |-> {}]

IdleTask == [pc |-> "idle", bs |-> <<>>, i |-> 0, n |-> 0, w |-> 0, rej |-> FALSE]

\* a waiter of the mutex: a setLookAhead call ("la") of an owner, or a
\* runExclusive callback ("pa") that starts processAddress for a new address
LaReq(org, key, n, f, pn) ==
  [k |-> "la", org |-> org, key |-> key, n |-> n, f |-> f, pn |-> pn]
PaReq(key) ==
  [k |-> "pa", org |-> "disp", key |-> key, n |-> 0, f |-> key[1], pn |-> FALSE]

\* setLookAhead(args) up to the loop over the branches: its locals
NewLa(req) ==
  [req |-> req, f |-> req.f, pn |-> req.pn, bs |-> getFormatSupportedBranches(req.f),
   i |-> 0, fresh |-> 0, pc |-> "begin", snap |-> NoRec]

\* processAddress(args) up to its first await
NewTask(org, key, n) ==
  [org |-> org, key |-> key, n |-> n, pc |-> "read", first |-> FALSE,
   prevUsed |-> FALSE, oldBal |-> 0, hasPath |-> FALSE, det |-> Cold,
   uold |-> {}, ures |-> {}, reads |-> <<>>, count |-> 0]

ScanTasks(f) == {t \in tasks : t.org = "scan" /\ t.key[1] = f}

\* the addresses whose indexer data changes
HotKeys == {k \in Keys : k[2] = 0 /\ k[3] < HotIdx}


\* ---------------------------------------------------------------- the state
\* after makeUtxoEngineState(config): an empty store, an empty watch set, a free
\* mutex; the indexer knows at most one address with history
InitialAddresses ==
  gapLimit * SumSeq([n \in 1..Len(getWalletSupportedFormats(purpose)) |->
                      Len(getFormatSupportedBranches(
                            getWalletSupportedFormats(purpose)[n]))])

InitIdle ==
  /\ started = FALSE
  /\ utxos = {}
  /\ addressesToWatch = {}
  /\ lastSub = {}
  /\ subsBy = <<>>
  /\ mutex = <<>>
  /\ la = {}
  /\ ftask = [f \in Declared |-> IdleTask]
  /\ tasks = {}
  /\ processedCount = 0
  /\ lastRatio = <<0, 0>>
  /\ balEvents = {}
  /\ flipped = {}
  /\ lastReport = <<>>
  /\ marked = {}
  /\ changes = 0
  /\ marks = 0
  /\ laCreated = {}
  /\ pathSaved = {}
  /\ inspected = {}
  /\ stopped = FALSE
  /\ failed = {}
  /\ faults = 0
  /\ imports = {}
  /\ obs = NoObs

InitEngine ==
  /\ addrs = <<>>
  /\ InitIdle

\* a small wallet whose host and whose indexer act while it runs
Init ==
  /\ gapLimit \in 1..MaxGap
  /\ purpose \in Purposes
  /\ InitialAddresses <= MaxInitial
  /\ hot \in HotKeys
  /\ chain \in [{hot} -> {Cold, Funded}]
  /\ InitEngine
  /\ cash = NoCash
  /\ finder = NoFinder
  /\ pager = NoPager
  /\ pool = NoPool
  /\ affinity = NoAffinity

\* a wallet of any purpose type whose addresses have no history
InitEmpty ==
  /\ gapLimit \in 1..MaxGap
  /\ purpose \in Purposes
  /\ hot = Key(getWalletSupportedFormats(purpose)[1], 0, 0)
  /\ chain = <<>>
  /\ InitEngine
  /\ cash = NoCash
  /\ finder = NoFinder
  /\ pager = NoPager
  /\ pool = NoPool
  /\ affinity = NoAffinity

\* a wrapped-segwit wallet with gap limit 5; the address at index 3 of branch 0
\* has two transactions and the balance 1500
InitReceived ==
  /\ gapLimit = 5
  /\ purpose = "WrappedSegwit"
  /\ hot = Key("bip49", 0, 3)
  /\ chain = [k \in {hot} |-> Funded]
  /\ InitEngine
  /\ cash = NoCash
  /\ finder = NoFinder
  /\ pager = NoPager
  /\ pool = NoPool
  /\ affinity = NoAffinity


config == <<gapLimit, purpose, hot>>
hostVars == <<stopped, failed, faults, imports>>
\* the watch set and the subscription
watching == <<addressesToWatch, lastSub, subsBy>>
\* the functions that are checked by themselves, apart from a running engine
aside == <<cash, finder, pager, pool, affinity>>

\* the calls of the host, the changes of the chain and the failed calls so far
Events == changes + marks + faults + Cardinality(imports) + (IF stopped THEN 1 ELSE 0)

\* a step that returns nothing to the host.  A call of the facade's
\* getFreshAddress changes nothing, so a run is not continued from the state
\* that shows its result: it continues from the state the call was made in.
NoResult == obs.kind # "fresh" /\ obs' = NoObs
history == <<lastReport, marked, changes, marks, laCreated, pathSaved>>
ghosts == <<history, inspected>>
\* the state of the engine and of its surroundings
engine == <<config, hostVars, started, addrs, utxos, chain, watching, mutex,
            la, ftask, tasks, processedCount, lastRatio, balEvents, flipped, ghosts,
            obs>>

\* -------------------------------------------------------------------- start
\* start(): every declared format's async function runs up to its first await,
\* mutex.acquire() inside setLookAhead; nothing awaits these functions, and the
\* promise start() returns resolves at once
Start ==
  /\ NoResult
  /\ ~started
  /\ started' = TRUE
  /\ mutex' = mutex \o [n \in 1..Len(getWalletSupportedFormats(purpose)) |->
                LaReq("fmt", Key(getWalletSupportedFormats(purpose)[n], 0, 0), 0,
                      getWalletSupportedFormats(purpose)[n], FALSE)]
  /\ ftask' = [f \in Declared |-> [IdleTask EXCEPT !.pc = "la"]]
  /\ UNCHANGED <<config, hostVars, aside, addrs, utxos, chain, watching, la, tasks,
                 processedCount, lastRatio, balEvents, flipped, ghosts>>

\* ------------------------------------------------------------- setLookAhead
CurKey(l) == Key(l.f, Head(l.bs), l.i)

\* async-mutex without the wait: a caller enters at once
MayEnterUnlocked(req) == TRUE

\* async-mutex: the callers get the mutex in the order of their calls; the
\* first of the queue holds it
MayEnter(req) == Head(mutex) = req

\* a finally block that does not call release()
ReleaseForgotten(m, req) == m

\* release(): the holder leaves the queue
Release(m, req) == SelectSeq(m, LAMBDA x : x # req)

\* a runExclusive that keeps the mutex after its callback
CallbackKept(m, req) == m

\* runExclusive: the callback has returned (it awaits nothing), release
AfterCallback(m, req) == Release(m, req)

\* the for-loops of setLookAhead after freshIndex was read: another address of
\* this branch, the next branch, or the finally block (release) and the return
\* to the caller
LaLoop(l, l2) ==
  IF l2.i < LookAheadTarget(l2.fresh)
  THEN /\ la' = (la \ {l}) \cup {[l2 EXCEPT !.pc = "chk"]}
       /\ obs' = NoObs
       /\ UNCHANGED <<mutex, ftask, tasks, inspected>>
  ELSE IF Len(l2.bs) > 1
  THEN /\ la' = (la \ {l}) \cup {[l2 EXCEPT !.bs = Tail(l2.bs), !.pc = "begin"]}
       /\ obs' = NoObs
       /\ UNCHANGED <<mutex, ftask, tasks, inspected>>
  ELSE /\ la' = la \ {l}
       /\ mutex' = Release(mutex, l.req)
       /\ obs' = [NoObs EXCEPT !.kind = "la", !.key = Key(l.f, 0, 0)]
       /\ IF l.req.org = "fmt"
          THEN /\ ftask' = [ftask EXCEPT ![l.f] =
                     [IdleTask EXCEPT !.pc = "count",
                                      !.bs = getFormatSupportedBranches(l.f)]]
               /\ UNCHANGED <<tasks, inspected>>
          ELSE /\ tasks' = {t \in tasks :
                     ~(t.pc = "la" /\ t.org = l.req.org
                       /\ t.key = l.req.key /\ t.n = l.req.n)}
               /\ inspected' = inspected \cup {l.req.key}
               /\ UNCHANGED ftask

\* const release = await mutex.acquire()
LA_Acquire(req) ==
  /\ NoResult
  /\ req.k = "la"
  /\ MayEnter(req)
  /\ \A l \in la : l.req # req
  /\ la' = la \cup {NewLa(req)}
  /\ UNCHANGED <<config, hostVars, aside, started, addrs, utxos, chain, watching, mutex, ftask,
                 tasks, processedCount, lastRatio, balEvents, flipped, ghosts>>

\* a branch: freshIndex and addressCount are read
LA_Begin(l) ==
  /\ obs.kind # "fresh"
  /\ l.pc = "begin"
  /\ LaLoop(l, [l EXCEPT !.fresh = getFreshIndex(l.f, Head(l.bs), TRUE),
                         !.i = LoopStart(fetchAddressCountFromPathPartition(
                                           l.f, Head(l.bs)))])
  /\ UNCHANGED <<config, hostVars, aside, started, addrs, utxos, chain, watching,
                 processedCount, lastRatio, balEvents, flipped, history>>

\* saveNewOrUpdateAddressPathIfNeeded: processor.fetchAddressByScriptPubkey
LA_Check(l) ==
  /\ NoResult
  /\ l.pc = "chk"
  /\ l.i < MaxIdx
  /\ la' = (la \ {l}) \cup {[l EXCEPT !.snap = Rec(CurKey(l)), !.pc = "save"]}
  /\ UNCHANGED <<config, hostVars, aside, started, addrs, utxos, chain, watching, mutex, ftask,
                 tasks, processedCount, lastRatio, balEvents, flipped, ghosts>>

\* saveNewOrUpdateAddressPathIfNeeded: processor.saveAddress of a new record, or
\* of the record that was read with the path patched in
LA_Save(l) ==
  /\ NoResult
  /\ l.pc = "save"
  /\ addrs' = IF ~l.snap.ex
              THEN Put(addrs, CurKey(l),
                       [ex |-> TRUE, path |-> TRUE, used |-> FALSE, balance |-> 0])
              ELSE IF ~l.snap.path
              THEN Put(addrs, CurKey(l), [l.snap EXCEPT !.path = TRUE])
              ELSE addrs
  /\ laCreated' = IF ~l.snap.ex THEN laCreated \cup {CurKey(l)} ELSE laCreated
  /\ pathSaved' = IF ~l.snap.ex \/ ~l.snap.path
                  THEN pathSaved \cup {CurKey(l)} ELSE pathSaved
  /\ la' = (la \ {l}) \cup
             {[l EXCEPT !.pc = IF ~l.snap.ex /\ l.pn THEN "disp" ELSE "reread"]}
  /\ UNCHANGED <<config, hostVars, aside, started, utxos, chain, watching, mutex, ftask, tasks,
                 processedCount, lastRatio, balEvents, flipped, lastReport, marked,
                 changes, marks, inspected>>

\* isNew && processNewAddresses: mutex.runExclusive(() => { processAddress(..) })
\* queues behind the holder, which is this setLookAhead
LA_Dispatch(l) ==
  /\ NoResult
  /\ l.pc = "disp"
  /\ mutex' = Append(mutex, PaReq(CurKey(l)))
  /\ la' = (la \ {l}) \cup {[l EXCEPT !.pc = "reread"]}
  /\ UNCHANGED <<config, hostVars, aside, started, addrs, utxos, chain, watching, ftask, tasks,
                 processedCount, lastRatio, balEvents, flipped, ghosts>>

\* freshIndex is read again, i++
LA_Reread(l) ==
  /\ obs.kind # "fresh"
  /\ l.pc = "reread"
  /\ LaLoop(l, [l EXCEPT !.fresh = getFreshIndex(l.f, Head(l.bs), TRUE),
                         !.i = l.i + 1])
  /\ UNCHANGED <<config, hostVars, aside, started, addrs, utxos, chain, watching,
                 processedCount, lastRatio, balEvents, flipped, history>>

\* the runExclusive callback gets the mutex: processAddress starts, the callback
\* returns without awaiting it and the mutex is released
RunExclusive(req) ==
  /\ NoResult
  /\ req.k = "pa"
  /\ MayEnter(req)
  /\ tasks' = tasks \cup {NewTask("disp", req.key, 0)}
  /\ mutex' = AfterCallback(mutex, req)
  /\ UNCHANGED <<config, hostVars, aside, started, addrs, utxos, chain, watching, la, ftask,
                 processedCount, lastRatio, balEvents, flipped, ghosts>>


\* ---------------------------------------------------------- the scan driver
\* processPathAddresses: addressCount is read
Scan_Count(f) ==
  /\ NoResult
  /\ ftask[f].pc = "count"
  /\ LET n == fetchAddressCountFromPathPartition(f, Head(ftask[f].bs))
     IN ftask' = [ftask EXCEPT ![f] =
          [@ EXCEPT !.n = n, !.i = 0, !.w = 0,
                    !.pc = IF n > 0 THEN "spawn" ELSE "last"]]
  /\ UNCHANGED <<config, hostVars, aside, started, addrs, utxos, chain, watching, mutex, la,
                 tasks, processedCount, lastRatio, balEvents, flipped, ghosts>>

\* one turn of the loop: processAddress is called for index i and its promise
\* pushed; a full wave (gapLimit promises) is awaited
Scan_Spawn(f) ==
  /\ NoResult
  /\ ftask[f].pc = "spawn"
  /\ tasks' = tasks \cup {NewTask("scan", Key(f, Head(ftask[f].bs), ftask[f].i), 0)}
  /\ ftask' = [ftask EXCEPT ![f] =
       [@ EXCEPT !.i = @ + 1, !.w = @ + 1,
                 !.pc = IF ftask[f].w + 1 >= gapLimit THEN "wave"
                        ELSE IF ftask[f].i + 1 < ftask[f].n THEN "spawn"
                        ELSE "last"]]
  /\ UNCHANGED <<config, hostVars, aside, started, addrs, utxos, chain, watching, mutex, la,
                 processedCount, lastRatio, balEvents, flipped, ghosts>>

\* await Promise.all(processAddressPromises) inside the loop; a rejected
\* promise rejects the Promise.all, processPathAddresses, processFormatAddresses
\* and the format's task of start()
Scan_Wave(f) ==
  /\ NoResult
  /\ ftask[f].pc = "wave"
  /\ ftask[f].rej \/ ScanTasks(f) = {}
  /\ ftask' = [ftask EXCEPT ![f] =
       IF ftask[f].rej THEN [IdleTask EXCEPT !.pc = "failed"]
       ELSE [@ EXCEPT !.w = 0,
                      !.pc = IF ftask[f].i < ftask[f].n THEN "spawn" ELSE "last"]]
  /\ UNCHANGED <<config, hostVars, aside, started, addrs, utxos, chain, watching, mutex, la,
                 tasks, processedCount, lastRatio, balEvents, flipped, ghosts>>

\* await Promise.all(processAddressPromises) after the loop; the next branch
Scan_Last(f) ==
  /\ NoResult
  /\ ftask[f].pc = "last"
  /\ ftask[f].rej \/ ScanTasks(f) = {}
  /\ ftask' = [ftask EXCEPT ![f] =
       IF ftask[f].rej THEN [IdleTask EXCEPT !.pc = "failed"]
       ELSE IF Len(ftask[f].bs) > 1
       THEN [IdleTask EXCEPT !.pc = "count", !.bs = Tail(ftask[f].bs)]
       ELSE [IdleTask EXCEPT !.pc = "done"]]
  /\ UNCHANGED <<config, hostVars, aside, started, addrs, utxos, chain, watching, mutex, la,
                 tasks, processedCount, lastRatio, balEvents, flipped, ghosts>>

\* ----------------------------------------------------------- processAddress
\* the end of processAddress: setLookAhead is awaited if the address went from
\* unused to used and its path is saved, else the promise resolves
PA_Finish(t, t2) ==
  IF ~t2.prevUsed /\ UsedOf(t2.det) /\ t2.hasPath
  THEN /\ tasks' = (tasks \ {t}) \cup {[t2 EXCEPT !.pc = "la"]}
       /\ mutex' = Append(mutex, LaReq(t2.org, t2.key, t2.n, t2.key[1], TRUE))
       /\ flipped' = flipped \cup {t2.key}
       /\ UNCHANGED inspected
  ELSE /\ tasks' = tasks \ {t}
       /\ inspected' = inspected \cup {t.key}
       /\ UNCHANGED <<mutex, flipped>>

\* the Promise.all has resolved: onAddressChecked runs on the first visit
\* (processedCount + 1, then an await)
PA_Settle(t, t2) ==
  IF t2.first
  THEN /\ processedCount' = processedCount + 1
       /\ tasks' = (tasks \ {t}) \cup
            {[t2 EXCEPT !.pc = "tick", !.count = 0,
                        !.reads = CountReads(getWalletSupportedFormats(purpose))]}
       /\ UNCHANGED <<mutex, flipped, inspected>>
  ELSE /\ PA_Finish(t, t2)
       /\ UNCHANGED processedCount

\* a processAddress that takes every visit for the first
firstProcessAlways(address) == TRUE

\* const firstProcess = !addressesToWatch.has(address)
firstProcess(address) == address \notin addressesToWatch

\* the subscriptions that the processAddress calls of an address have issued
SubsOf(k) == IF k \in DOMAIN subsBy THEN subsBy[k] ELSE 0

\* addressData is read; the first visit adds the address to the watch set and
\* subscribes with the whole watch set; blockBook.fetchAddress is requested
PA_Read(t) ==
  /\ NoResult
  /\ t.pc = "read"
  /\ Rec(t.key).ex
  /\ tasks' = (tasks \ {t}) \cup
       {[t EXCEPT !.pc = "fetch", !.first = firstProcess(t.key),
                  !.prevUsed = Rec(t.key).used, !.oldBal = Rec(t.key).balance,
                  !.hasPath = Rec(t.key).path]}
  /\ IF firstProcess(t.key)
     THEN /\ addressesToWatch' = addressesToWatch \cup {t.key}
          /\ lastSub' = addressesToWatch \cup {t.key}
          /\ subsBy' = Put(subsBy, t.key, SubsOf(t.key) + 1)
     ELSE UNCHANGED watching
  /\ UNCHANGED <<config, hostVars, aside, started, addrs, utxos, chain, mutex, la, ftask,
                 processedCount, lastRatio, balEvents, flipped, ghosts>>

\* accountDetails arrive: BALANCE_CHANGED if the balance differs from the one
\* read; the parts of the Promise.all start.  The parts write disjoint data (the
\* address record, the UTXO table), so the order in which they run changes
\* nothing that is said of either: the model runs the update, then the UTXOs.
PA_Fetch(t) ==
  /\ obs.kind # "fresh"
  /\ t.pc = "fetch"
  /\ LET det == ChainOf(t.key) IN
       /\ tasks' = (tasks \ {t}) \cup {[t EXCEPT !.pc = "update", !.det = det]}
       /\ obs' = [NoObs EXCEPT !.kind = "fetch", !.key = t.key,
                               !.ci = BalanceOf(det),
                               !.below = (t.oldBal # BalanceOf(det))]
       /\ balEvents' = IF t.oldBal # BalanceOf(det)
                       THEN balEvents \cup {BalanceOf(det)} ELSE balEvents
  /\ UNCHANGED <<config, hostVars, aside, started, addrs, utxos, chain, watching, mutex, la,
                 ftask, processedCount, lastRatio, flipped, ghosts>>

\* processor.updateAddressByScriptPubkey(scriptPubkey, { balance, used })
PA_Update(t) ==
  /\ NoResult
  /\ t.pc = "update"
  /\ addrs' = [addrs EXCEPT ![t.key] =
       [@ EXCEPT !.balance = BalanceOf(t.det), !.used = UsedOf(t.det)]]
  /\ lastReport' = Put(lastReport, t.key,
       IF Profiles[t.det].txs + Profiles[t.det].unconfirmedTxs > 0
       THEN "pos" ELSE "zero")
  /\ marked' = marked \ {t.key}
  /\ tasks' = (tasks \ {t}) \cup {[t EXCEPT !.pc = "utxos"]}
  /\ UNCHANGED <<config, hostVars, aside, started, utxos, chain, watching, mutex, la, ftask,
                 processedCount, lastRatio, balEvents, flipped, changes, marks,
                 laCreated, pathSaved, inspected>>

\* the store after the two loops of processAddressUtxos: the answer's ids that
\* were not read from the store are saved, the ids read from the store that
\* are not in the answer are removed
ReconcileUtxos(stored, old, answer) ==
  (stored \cup (answer \ old)) \ (old \ answer)

\* processAddressUtxos: addressData and the stored UTXOs are read, the indexer
\* answers blockBook.fetchAddressUtxos; a record without a path ends it
PA_UtxoFetch(t) ==
  /\ NoResult
  /\ t.pc = "utxos"
  /\ Rec(t.key).ex /\ Rec(t.key).path
  /\ tasks' = (tasks \ {t}) \cup
       {[t EXCEPT !.pc = "apply", !.uold = UtxosOf(t.key),
                  !.ures = Profiles[ChainOf(t.key)].utxos]}
  /\ UNCHANGED <<config, hostVars, aside, started, addrs, utxos, chain, watching, mutex, la,
                 ftask, processedCount, lastRatio, balEvents, flipped, ghosts>>

\* processAddressUtxos: addressData is read and has no path: return
PA_UtxoSkip(t) ==
  /\ NoResult
  /\ t.pc = "utxos"
  /\ ~(Rec(t.key).ex /\ Rec(t.key).path)
  /\ PA_Settle(t, t)
  /\ UNCHANGED <<config, hostVars, aside, started, addrs, utxos, chain, watching, la,
                 ftask, lastRatio, balEvents, history>>

\* processAddressUtxos: the answer is applied to the store
PA_UtxoApply(t) ==
  /\ t.pc = "apply"
  /\ obs.kind # "fresh"
  /\ utxos' = {u \in utxos : u[1] # t.key} \cup
              ({t.key} \X ReconcileUtxos(UtxosOf(t.key), t.uold, t.ures))
  /\ obs' = [NoObs EXCEPT !.kind = "utxos", !.key = t.key, !.ret = t.ures]
  /\ PA_Settle(t, t)
  /\ UNCHANGED <<config, hostVars, aside, started, addrs, chain, watching, la, ftask,
                 lastRatio, balEvents, history>>

\* onAddressChecked after its await: getTotalAddressCount gets the answer of one
\* of its reads (a branch's count, at least gapLimit) and awaits the next; after
\* the last one ADDRESSES_CHECKED is emitted with processedCount / totalCount
PA_Tick(t) ==
  /\ obs.kind # "fresh"
  /\ t.pc = "tick"
  /\ LET r == Head(t.reads)
         c == t.count + BranchFloor(fetchAddressCountFromPathPartition(r[1], r[2]))
     IN IF Len(t.reads) > 1
        THEN /\ tasks' = (tasks \ {t}) \cup
                  {[t EXCEPT !.reads = Tail(t.reads), !.count = c]}
             /\ obs' = NoObs
             /\ UNCHANGED <<lastRatio, mutex, flipped, inspected>>
        ELSE /\ lastRatio' = <<processedCount, c>>
             /\ obs' = [NoObs EXCEPT !.kind = "tick", !.key = t.key]
             /\ PA_Finish(t, [t EXCEPT !.reads = <<>>, !.count = 0])
  /\ UNCHANGED <<config, hostVars, aside, started, addrs, utxos, chain, watching, la, ftask,
                 processedCount, balEvents, history>>

\* the promise of processAddress is rejected: the exception reaches the caller,
\* which for the scan is the Promise.all of processPathAddresses
Reject(t) ==
  /\ tasks' = tasks \ {t}
  /\ failed' = failed \cup {t.key}
  /\ ftask' = IF t.org = "scan"
              THEN [ftask EXCEPT ![t.key[1]] = [@ EXCEPT !.rej = TRUE]]
              ELSE ftask

\* blockBook.fetchAddress fails
PA_FetchFail(t) ==
  /\ Events < MaxEvents
  /\ obs.kind # "fresh"
  /\ t.pc = "fetch"
  /\ faults' = faults + 1
  /\ Reject(t)
  /\ obs' = [NoObs EXCEPT !.kind = "failed", !.key = t.key,
                          !.below = t.prevUsed, !.ci = t.oldBal]
  /\ UNCHANGED <<config, aside, started, addrs, utxos, chain, watching, mutex, la,
                 processedCount, lastRatio, balEvents, flipped, ghosts, stopped, imports>>

\* blockBook.fetchAddressUtxos fails: the Promise.all of processAddress is
\* rejected; updateAddressByScriptPubkey, which the same Promise.all started,
\* is not undone
PA_UtxoFail(t) ==
  /\ Events < MaxEvents
  /\ obs.kind # "fresh"
  /\ t.pc = "utxos"
  /\ faults' = faults + 1
  /\ Reject(t)
  /\ obs' = [NoObs EXCEPT !.kind = "failed", !.key = t.key,
                          !.below = t.prevUsed, !.ci = t.oldBal]
  /\ UNCHANGED <<config, aside, started, addrs, utxos, chain, watching, mutex, la,
                 processedCount, lastRatio, balEvents, flipped, ghosts, stopped, imports>>

\* a store call inside the try block of setLookAhead fails: the finally block
\* releases the mutex and the exception reaches the caller
LA_Throw(l) ==
  /\ Events < MaxEvents
  /\ NoResult
  /\ la' = la \ {l}
  /\ mutex' = Release(mutex, l.req)
  /\ faults' = faults + 1
  /\ IF l.req.org = "fmt"
     THEN /\ ftask' = [ftask EXCEPT ![l.f] = [IdleTask EXCEPT !.pc = "failed"]]
          /\ UNCHANGED <<tasks, failed>>
     ELSE Reject(CHOOSE t \in tasks : t.pc = "la" /\ t.org = l.req.org
                                      /\ t.key = l.req.key /\ t.n = l.req.n)
  /\ UNCHANGED <<config, aside, started, addrs, utxos, chain, watching,
                 processedCount, lastRatio, balEvents, flipped, ghosts, stopped, imports>>

\* ----------------------------------------------------------- the host's calls
\* stop(): the body is empty
Stop ==
  /\ Events < MaxEvents
  /\ NoResult
  /\ started
  /\ ~stopped
  /\ stopped' = TRUE
  /\ UNCHANGED <<config, aside, started, addrs, utxos, chain, watching, mutex, la,
                 ftask, tasks, processedCount, lastRatio, balEvents, flipped, ghosts,
                 failed, faults, imports>>

\* markAddressUsed(address): updateAddressByScriptPubkey(scriptPubkey, {used: true})
MarkAddressUsed(k) ==
  /\ Events < MaxEvents
  /\ obs.kind # "fresh"
  /\ Rec(k).ex
  /\ addrs' = [addrs EXCEPT ![k] = [@ EXCEPT !.used = TRUE]]
  /\ marked' = marked \cup {k}
  /\ marks' = marks + 1
  /\ obs' = [NoObs EXCEPT !.kind = "mark", !.key = k,
               !.below = \A j \in 0..(k[3] - 1) : Rec(Key(k[1], k[2], j)).used]
  /\ UNCHANGED <<config, hostVars, aside, started, utxos, chain, watching, mutex, la, ftask,
                 tasks, processedCount, lastRatio, balEvents, flipped, lastReport,
                 changes, laCreated, pathSaved, inspected>>

\* addGapLimitAddresses([address]) up to the first await of
\* saveNewOrUpdateAddressPathIfNeeded: processor.fetchAddressByScriptPubkey
AGL_Check(k) ==
  /\ Events < MaxEvents
  /\ NoResult
  /\ imports' = imports \cup {[key |-> k, snap |-> Rec(k), pc |-> "save"]}
  /\ UNCHANGED <<config, aside, started, addrs, utxos, chain, watching, mutex, la,
                 ftask, tasks, processedCount, lastRatio, balEvents, flipped, ghosts,
                 stopped, failed, faults>>

\* saveNewOrUpdateAddressPathIfNeeded without a path: processor.saveAddress of a
\* new record without path if none was read, or of the record that was read if
\* it has no path
AGL_Save(m) ==
  /\ obs.kind # "fresh"
  /\ m.pc = "save"
  /\ addrs' = IF ~m.snap.ex
              THEN Put(addrs, m.key,
                       [ex |-> TRUE, path |-> FALSE, used |-> FALSE, balance |-> 0])
              ELSE IF ~m.snap.path THEN Put(addrs, m.key, m.snap)
              ELSE addrs
  /\ imports' = (imports \ {m}) \cup {[m EXCEPT !.pc = "done"]}
  /\ obs' = [NoObs EXCEPT !.kind = "import", !.key = m.key,
                          !.below = ~m.snap.ex /\ Rec(m.key).ex]
  /\ UNCHANGED <<config, aside, started, utxos, chain, watching, mutex, la,
                 ftask, tasks, processedCount, lastRatio, balEvents, flipped, ghosts,
                 stopped, failed, faults>>

\* the facade's changeIndex: change && walletPurpose !== Airbitz ? 1 : 0
FacadeChangeIndex(change) ==
  IF change /\ purpose # "Airbitz" THEN 1 ELSE 0

\* the formats the facade derives addresses of
FacadeFormats ==
  IF purpose = "Segwit"
  THEN <<getCurrencyFormatFromPurposeType("WrappedSegwit"),
         getCurrencyFormatFromPurposeType("Segwit")>>
  ELSE <<getCurrencyFormatFromPurposeType(purpose)>>

\* getFreshAddress(change): the paths of the addresses it returns (find: false)
GetFreshAddress(change) ==
  /\ obs.kind # "fresh"
  /\ obs' = [NoObs EXCEPT
       !.kind = "fresh",
       !.key = IF obs.kind = "mark" THEN obs.key ELSE NoKey,
       !.below = obs.kind = "mark" /\ obs.below,
       !.ci = FacadeChangeIndex(change),
       !.res = [n \in 1..Len(FacadeFormats) |->
                  <<FacadeFormats[n], FacadeChangeIndex(change),
                    getFreshIndex(FacadeFormats[n], FacadeChangeIndex(change), FALSE)>>]]
  /\ UNCHANGED <<config, hostVars, aside, started, addrs, utxos, chain, watching, mutex, la,
                 ftask, tasks, processedCount, lastRatio, balEvents, flipped, ghosts>>

\* ------------------------------------------------------------- the indexer
\* the chain changes what the indexer says about an address; a watched address
\* gets a push, whose callback calls processAddress
IndexerChange(k) ==
  /\ NoResult
  /\ Events < MaxEvents
  /\ chain' = Put(chain, k, NextProfile(ChainOf(k)))
  /\ changes' = changes + 1
  /\ tasks' = IF k \in addressesToWatch
              THEN tasks \cup {NewTask("push", k, changes + 1)} ELSE tasks
  /\ UNCHANGED <<config, hostVars, aside, started, addrs, utxos, watching, mutex, la, ftask,
                 processedCount, lastRatio, balEvents, flipped, lastReport, marked,
                 marks, laCreated, pathSaved, inspected>>

\* --------------------------------------------------------------------- Next
Next ==
  \/ Start
  \/ \E n \in 1..Len(mutex) : LA_Acquire(mutex[n])
  \/ \E l \in la : LA_Begin(l)
  \/ \E l \in la : LA_Check(l)
  \/ \E l \in la : LA_Save(l)
  \/ \E l \in la : LA_Dispatch(l)
  \/ \E l \in la : LA_Reread(l)
  \/ \E n \in 1..Len(mutex) : RunExclusive(mutex[n])
  \/ \E f \in Declared : Scan_Count(f)
  \/ \E f \in Declared : Scan_Spawn(f)
  \/ \E f \in Declared : Scan_Wave(f)
  \/ \E f \in Declared : Scan_Last(f)
  \/ \E t \in tasks : PA_Read(t)
  \/ \E t \in tasks : PA_Fetch(t)
  \/ \E t \in tasks : PA_Update(t)
  \/ \E t \in tasks : PA_UtxoFetch(t)
  \/ \E t \in tasks : PA_UtxoApply(t)
  \/ \E t \in tasks : PA_Tick(t)
  \/ IndexerChange(hot)
  \/ MarkAddressUsed(hot)
  \/ \E change \in BOOLEAN : GetFreshAddress(change)

Spec == Init /\ [][Next]_vars

\* a synchronisation in which the chain does not change, the host makes no call
\* after start() and no lookahead after the first finds an address to create
NextSync ==
  \/ Start
  \/ \E n \in 1..Len(mutex) : LA_Acquire(mutex[n])
  \/ \E l \in la : LA_Begin(l)
  \/ \E l \in la : LA_Check(l)
  \/ \E l \in la : LA_Save(l)
  \/ \E l \in la : LA_Reread(l)
  \/ \E f \in Declared : Scan_Count(f)
  \/ \E f \in Declared : Scan_Spawn(f)
  \/ \E f \in Declared : Scan_Wave(f)
  \/ \E f \in Declared : Scan_Last(f)
  \/ \E t \in tasks : PA_Read(t)
  \/ \E t \in tasks : PA_Fetch(t)
  \/ \E t \in tasks : PA_Update(t)
  \/ \E t \in tasks : PA_UtxoFetch(t)
  \/ \E t \in tasks : PA_UtxoApply(t)
  \/ \E t \in tasks : PA_Tick(t)

\* the wallet of Spec with failing indexer and store calls and with stop()
NextFaults ==
  \/ Start
  \/ \E n \in 1..Len(mutex) : LA_Acquire(mutex[n])
  \/ \E l \in la : LA_Begin(l)
  \/ \E l \in la : LA_Check(l)
  \/ \E l \in la : LA_Save(l)
  \/ \E l \in la : LA_Dispatch(l)
  \/ \E l \in la : LA_Reread(l)
  \/ \E l \in la : LA_Throw(l)
  \/ \E n \in 1..Len(mutex) : RunExclusive(mutex[n])
  \/ \E f \in Declared : Scan_Count(f)
  \/ \E f \in Declared : Scan_Spawn(f)
  \/ \E f \in Declared : Scan_Wave(f)
  \/ \E f \in Declared : Scan_Last(f)
  \/ \E t \in tasks : PA_Read(t)
  \/ \E t \in tasks : PA_Fetch(t)
  \/ \E t \in tasks : PA_FetchFail(t)
  \/ \E t \in tasks : PA_Update(t)
  \/ \E t \in tasks : PA_UtxoFetch(t)
  \/ \E t \in tasks : PA_UtxoFail(t)
  \/ \E t \in tasks : PA_UtxoApply(t)
  \/ \E t \in tasks : PA_Tick(t)
  \/ IndexerChange(hot)
  \/ Stop

SpecFaults == Init /\ [][NextFaults]_vars

\* the wallet of Spec whose host imports the address that has history
NextImported ==
  \/ Start
  \/ \E n \in 1..Len(mutex) : LA_Acquire(mutex[n])
  \/ \E l \in la : LA_Begin(l)
  \/ \E l \in la : LA_Check(l)
  \/ \E l \in la : LA_Save(l)
  \/ \E l \in la : LA_Dispatch(l)
  \/ \E l \in la : LA_Reread(l)
  \/ \E n \in 1..Len(mutex) : RunExclusive(mutex[n])
  \/ \E f \in Declared : Scan_Count(f)
  \/ \E f \in Declared : Scan_Spawn(f)
  \/ \E f \in Declared : Scan_Wave(f)
  \/ \E f \in Declared : Scan_Last(f)
  \/ \E t \in tasks : PA_Read(t)
  \/ \E t \in tasks : PA_Fetch(t)
  \/ \E t \in tasks : PA_Update(t)
  \/ \E t \in tasks : PA_UtxoFetch(t)
  \/ \E t \in tasks : PA_UtxoSkip(t)
  \/ \E t \in tasks : PA_UtxoApply(t)
  \/ \E t \in tasks : PA_Tick(t)
  \/ AGL_Check(hot)
  \/ \E m \in imports : AGL_Save(m)

SpecImported == Init /\ [][NextImported]_vars

\* the steps the engine takes by itself: a continuation that is ready runs, a
\* store read or an indexer request is answered
EngineStep ==
  \/ \E n \in 1..Len(mutex) : LA_Acquire(mutex[n]) \/ RunExclusive(mutex[n])
  \/ \E l \in la : LA_Begin(l) \/ LA_Check(l) \/ LA_Save(l) \/ LA_Dispatch(l)
                    \/ LA_Reread(l)
  \/ \E f \in Declared : Scan_Count(f) \/ Scan_Spawn(f) \/ Scan_Wave(f) \/ Scan_Last(f)
  \/ \E t \in tasks : PA_Read(t) \/ PA_Fetch(t) \/ PA_Update(t) \/ PA_UtxoFetch(t)
                       \/ PA_UtxoApply(t) \/ PA_Tick(t)

\* the event loop runs every continuation that is ready, and the store and the
\* indexer answer (or fail) every request
SpecLive == Init /\ [][NextFaults]_vars /\ WF_vars(EngineStep)

SpecSync == InitEmpty /\ [][NextSync]_vars

\* a synchronisation in which the chain does not change after start() and the
\* host makes no other call
NextQuiet ==
  \/ Start
  \/ \E n \in 1..Len(mutex) : LA_Acquire(mutex[n])
  \/ \E l \in la : LA_Begin(l)
  \/ \E l \in la : LA_Check(l)
  \/ \E l \in la : LA_Save(l)
  \/ \E l \in la : LA_Dispatch(l)
  \/ \E l \in la : LA_Reread(l)
  \/ \E n \in 1..Len(mutex) : RunExclusive(mutex[n])
  \/ \E f \in Declared : Scan_Count(f)
  \/ \E f \in Declared : Scan_Spawn(f)
  \/ \E f \in Declared : Scan_Wave(f)
  \/ \E f \in Declared : Scan_Last(f)
  \/ \E t \in tasks : PA_Read(t)
  \/ \E t \in tasks : PA_Fetch(t)
  \/ \E t \in tasks : PA_Update(t)
  \/ \E t \in tasks : PA_UtxoFetch(t)
  \/ \E t \in tasks : PA_UtxoApply(t)
  \/ \E t \in tasks : PA_Tick(t)

\* a small wallet; the indexer reports a history for any of the first addresses
\* of the receive branch
InitUsed ==
  /\ gapLimit \in 1..MaxGap
  /\ purpose \in Purposes
  /\ InitialAddresses <= MaxInitial
  /\ hot = Key(getWalletSupportedFormats(purpose)[1], 0, 0)
  /\ chain \in [HotKeys -> {Cold, Funded}]
  /\ InitEngine
  /\ cash = NoCash
  /\ finder = NoFinder
  /\ pager = NoPager
  /\ pool = NoPool
  /\ affinity = NoAffinity

\* the host calls start(), and the event loop runs every continuation that is
\* ready while the store and the indexer answer every request
SpecQuiet == InitUsed /\ [][NextQuiet]_vars /\ WF_vars(Start) /\ WF_vars(EngineStep)

SpecReceived == InitReceived /\ [][NextSync]_vars

\* a script hash, a type and a prefix are chosen; the engine is not started
InitCash ==
  /\ gapLimit = 1
  /\ purpose = "Legacy"
  /\ hot = Key("bip32", 0, 0)
  /\ chain = <<>>
  /\ InitEngine
  /\ finder = NoFinder
  /\ pager = NoPager
  /\ pool = NoPool
  /\ affinity = NoAffinity
  /\ \E h \in CashHashes, t \in cashaddrTypeEnum, n \in 1..Len(cashaddrPrefixEnum) :
       cash = [NoCash EXCEPT !.pc = "input", !.hash = h, !.type = t,
                             !.prefix = cashaddrPrefixEnum[n]]

\* hashToCashAddress(scriptHash, type, prefix)
Cash_Encode ==
  /\ cash.pc = "input"
  /\ cash' = [cash EXCEPT !.pc = "encoded",
                          !.address = hashToCashAddress(cash.hash, cash.type, cash.prefix)]
  /\ UNCHANGED <<engine, finder, pager, pool, affinity>>

\* cashAddressToHash(address)
Cash_Decode ==
  /\ cash.pc = "encoded"
  /\ cash' = [cash EXCEPT !.pc = "decoded", !.info = cashAddressToHash(cash.address)]
  /\ UNCHANGED <<engine, finder, pager, pool, affinity>>

\* the first receive address of the wallet
FirstKey == Key(getWalletSupportedFormats(purpose)[1], 0, 0)

\* a small wallet; the indexer may report a history for the first receive
\* address; the host marks the first address of a branch used
InitWatch ==
  /\ gapLimit \in 1..MaxGap
  /\ purpose \in Purposes
  /\ InitialAddresses <= MaxInitial
  /\ hot \in {k \in Keys : k[3] = 0 /\ k[2] \in BranchSet(k[1])}
  /\ chain \in [{FirstKey} -> {Cold, Funded}]
  /\ InitEngine
  /\ cash = NoCash
  /\ finder = NoFinder
  /\ pager = NoPager
  /\ pool = NoPool
  /\ affinity = NoAffinity

\* a synchronisation with the dispatch of new addresses, a markAddressUsed call
\* of the host and the pushes of the subscription
NextWatch ==
  \/ Start
  \/ \E n \in 1..Len(mutex) : LA_Acquire(mutex[n])
  \/ \E l \in la : LA_Begin(l)
  \/ \E l \in la : LA_Check(l)
  \/ \E l \in la : LA_Save(l)
  \/ \E l \in la : LA_Dispatch(l)
  \/ \E l \in la : LA_Reread(l)
  \/ \E n \in 1..Len(mutex) : RunExclusive(mutex[n])
  \/ \E f \in Declared : Scan_Count(f)
  \/ \E f \in Declared : Scan_Spawn(f)
  \/ \E f \in Declared : Scan_Wave(f)
  \/ \E f \in Declared : Scan_Last(f)
  \/ \E t \in tasks : PA_Read(t)
  \/ \E t \in tasks : PA_Fetch(t)
  \/ \E t \in tasks : PA_Update(t)
  \/ \E t \in tasks : PA_UtxoFetch(t)
  \/ \E t \in tasks : PA_UtxoApply(t)
  \/ \E t \in tasks : PA_Tick(t)
  \/ IndexerChange(FirstKey)
  \/ MarkAddressUsed(hot)

SpecWatch == InitWatch /\ [][NextWatch]_vars

\* a small wallet; the indexer may report a history for the first receive
\* address; the host imports one of the first receive addresses
InitPatched ==
  /\ gapLimit \in 1..MaxGap
  /\ purpose \in Purposes
  /\ InitialAddresses <= MaxInitial
  /\ hot \in HotKeys
  /\ chain \in [{FirstKey} -> {Cold, Funded}]
  /\ InitEngine
  /\ cash = NoCash
  /\ finder = NoFinder
  /\ pager = NoPager
  /\ pool = NoPool
  /\ affinity = NoAffinity

SpecPatched == InitPatched /\ [][NextImported]_vars

\* the branch a findFreshIndex call runs on
FinderFormat == "bip32"
FinderBranch == 0

\* a store that holds the first n addresses of one branch, any of them used, and
\* a call of findFreshIndex with any index of the branch or the address count
InitFresh ==
  /\ gapLimit = 1
  /\ purpose = "Legacy"
  /\ hot = Key(FinderFormat, FinderBranch, 0)
  /\ chain = <<>>
  /\ InitIdle
  /\ cash = NoCash
  /\ pager = NoPager
  /\ pool = NoPool
  /\ affinity = NoAffinity
  /\ \E n \in 0..MaxCount :
       /\ \E U \in SUBSET (0..(n - 1)) :
            addrs = [k \in {Key(FinderFormat, FinderBranch, i) : i \in 0..(n - 1)} |->
                       [ex |-> TRUE, path |-> TRUE, used |-> k[3] \in U, balance |-> 0]]
       /\ \E i \in 0..n :
            finder = [NoFinder EXCEPT !.pc = "run", !.start = i, !.i = i]

\* findFreshIndex(args): one invocation, up to its return or its recursive call
FF_Call ==
  /\ finder.pc = "run"
  /\ LET r == FindFreshStep(FinderFormat, FinderBranch, finder.i)
     IN finder' = [finder EXCEPT
          !.pc = IF ~r.done THEN "run" ELSE IF r.i = Thrown THEN "thrown" ELSE "done",
          !.i = r.i,
          !.calls = @ + 1,
          !.reads = @ + r.reads,
          !.visited = @ \cup {finder.i},
          !.twice = @ \/ finder.i \in finder.visited,
          !.fwd = @ \/ (~r.done /\ r.i > finder.i),
          !.back = @ \/ (~r.done /\ r.i < finder.i),
          !.osc = @ \/ (~r.done /\ r.i <= finder.i /\ finder.fwd)]
  /\ UNCHANGED <<engine, cash, pager, pool, affinity>>

NextFresh ==
  \/ FF_Call

SpecFresh == InitFresh /\ [][NextFresh]_vars

\* the txids of a page of the indexer's answer: <<page, n>>; a page beyond the
\* last one is empty
PageTxids(page) ==
  IF page \in 1..Len(pager.txs) THEN {<<page, n>> : n \in 1..pager.txs[page]} ELSE {}

\* an emission after every page
EmitsAlways(length) == TRUE

\* if (transactions.length ?? 0 > 0): '>' binds tighter than '??', the
\* condition is transactions.length ?? false, which is the length
EmitsTxids(length) == length # 0

\* if (page < totalPages): false when totalPages is undefined
MorePages(page, totalPages) == totalPages # Missing /\ page < totalPages

\* the indexer holds totalPages pages of transactions of the address (or answers
\* without totalPages, or with totalPages 0), each with up to MaxTxs
\* transactions; processAddressTransactions(args) is called with page = 1
InitPages ==
  /\ gapLimit = 1
  /\ purpose = "Legacy"
  /\ hot = Key("bip32", 0, 0)
  /\ chain = <<>>
  /\ InitEngine
  /\ cash = NoCash
  /\ finder = NoFinder
  /\ pool = NoPool
  /\ affinity = NoAffinity
  /\ \E t \in {Missing} \cup (0..MaxPages) :
       \E txs \in [1..(IF t < 1 THEN 1 ELSE t) -> 0..MaxTxs] :
         pager = [NoPager EXCEPT !.pc = "read", !.totalPages = t, !.txs = txs]

\* processAddressTransactions(args, page): addressData is read and
\* blockBook.fetchAddress(address, {details: 'txs', perPage: 10, page}) requested
PT_Request ==
  /\ pager.pc = "read"
  /\ pager' = [pager EXCEPT !.pc = "wait", !.fetched = Append(@, pager.page)]
  /\ UNCHANGED <<engine, cash, finder, pool, affinity>>

\* the page arrives: every transaction is saved, TXIDS_CHANGED is emitted with
\* the map of this page, and the function calls itself with ++page or returns
PT_Answer ==
  /\ pager.pc = "wait"
  /\ LET transactions == PageTxids(pager.page)
     IN pager' = [pager EXCEPT
          !.saved = @ \cup transactions,
          !.emitted = IF EmitsTxids(Cardinality(transactions))
                      THEN Append(@, [page |-> pager.page, map |-> transactions])
                      ELSE @,
          !.page = IF MorePages(pager.page, pager.totalPages) THEN @ + 1 ELSE @,
          !.pc = IF MorePages(pager.page, pager.totalPages) THEN "read" ELSE "done"]
  /\ UNCHANGED <<engine, cash, finder, pool, affinity>>

NextPages ==
  \/ PT_Request
  \/ PT_Answer

SpecPages == InitPages /\ [][NextPages]_vars

\* ---------------------------------------------------------- the server pool
\* reconnect(), called n times in one turn: every call replaces reconnectTimer
\* by a new timer, and the timers it replaces stay scheduled
reconnect(p, n) ==
  IF p.engineStarted /\ n > 0
  THEN [p EXCEPT !.reconnectCounter = IF @ + n < 5 THEN @ + n ELSE 5,
                 !.orphans = @ + (n - 1) + (IF p.timer THEN 1 ELSE 0),
                 !.timer = TRUE]
  ELSE p

\* emitter.emit(CONNECTION_CLOSE): the handler every doRefillServers turn has
\* registered runs, each for the uri of its turn
OnConnectionClose(p) ==
  reconnect([p EXCEPT !.connections = @ \ p.listeners,
                      !.serverStates = [u \in DOMAIN @ \ p.listeners |-> @[u]]],
            Cardinality(p.listeners))

\* emitter.emit(BLOCK_HEIGHT_CHANGED): every registered handler runs; it makes
\* a server state for its uri if there is none, with subscribedBlocks = true
OnBlockHeightChanged(p) ==
  [p EXCEPT !.serverStates =
     [u \in DOMAIN @ \cup p.listeners |-> IF u \in p.listeners THEN TRUE ELSE @[u]]]

\* makeServerStates(config): the maps are empty, refillServers() was called
InitPool ==
  /\ gapLimit = 1
  /\ purpose = "Legacy"
  /\ hot = Key("bip32", 0, 0)
  /\ chain = <<>>
  /\ InitEngine
  /\ cash = NoCash
  /\ finder = NoFinder
  /\ pager = NoPager
  /\ affinity = NoAffinity
  /\ \E b \in BOOLEAN :
       pool = [NoPool EXCEPT !.pc = "run", !.engineStarted = b, !.queued = TRUE]

\* refillServers(), called by the host: pushUpdate queues doRefillServers
Pool_Refill ==
  /\ pool.pc = "run"
  /\ pool.events < MaxPoolEvents
  /\ pool' = [pool EXCEPT !.queued = TRUE, !.events = @ + 1]
  /\ UNCHANGED <<engine, cash, finder, pager, affinity>>

\* doRefillServers: the loop connects servers of the list until MAX_CONNECTIONS
\* are open or the list is empty; Math.random decides which come first.  For
\* every server it registers the handlers, sets the server state and the
\* connection, and starts connect()
Pool_DoRefill ==
  /\ pool.pc # "off"
  /\ pool.queued
  /\ LET list0 == IF pool.serverList = {} THEN Servers ELSE pool.serverList
         cand == list0 \ pool.connections
         room == MAX_CONNECTIONS - Cardinality(pool.connections)
     IN \E New \in SUBSET cand, R \in SUBSET list0 :
          /\ Cardinality(New) <= room
          /\ Cardinality(New) = room \/ New = cand
          /\ IF room <= 0 THEN R = list0
             ELSE IF Cardinality(New) < room THEN R = {}
             ELSE cand \ New \subseteq R /\ R \cap New = {}
          /\ pool' = [pool EXCEPT
               !.queued = FALSE,
               !.serverList = R,
               !.listeners = @ \cup New,
               !.serverStates = [u \in DOMAIN @ \cup New |->
                                   IF u \in New THEN FALSE ELSE @[u]],
               !.connections = @ \cup New,
               !.pending = @ \cup New,
               !.live = @ \cup New]
  /\ UNCHANGED <<engine, cash, finder, pager, affinity>>

\* blockBook.connect().then: fetchInfo has answered,
\* emitter.emit(BLOCK_HEIGHT_CHANGED, bestHeight)
Pool_Connected(u) ==
  /\ u \in pool.pending
  /\ pool' = OnBlockHeightChanged([pool EXCEPT !.pending = @ \ {u}])
  /\ UNCHANGED <<engine, cash, finder, pager, affinity>>

\* blockBook.connect() or fetchInfo fails: .catch logs the error
Pool_ConnectFailed(u) ==
  /\ u \in pool.pending
  /\ pool' = [pool EXCEPT !.pending = @ \ {u}]
  /\ UNCHANGED <<engine, cash, finder, pager, affinity>>

\* the socket of a server closes: CONNECTION_CLOSE is emitted on the emitter
Pool_Close(u) ==
  /\ u \in pool.live
  /\ pool.events < MaxPoolEvents
  /\ pool' = OnConnectionClose([pool EXCEPT !.live = @ \ {u}, !.pending = @ \ {u},
                                            !.events = @ + 1])
  /\ UNCHANGED <<engine, cash, finder, pager, affinity>>

\* reconnectTimer fires: clearTimeout(reconnectTimer), refillServers()
Pool_Timer ==
  /\ pool.timer
  /\ pool' = [pool EXCEPT !.timer = FALSE, !.queued = TRUE]
  /\ UNCHANGED <<engine, cash, finder, pager, affinity>>

\* a timer that reconnectTimer no longer refers to fires:
\* clearTimeout(reconnectTimer) cancels the timer it does refer to
Pool_OrphanTimer ==
  /\ pool.orphans > 0
  /\ pool' = [pool EXCEPT !.orphans = @ - 1, !.timer = FALSE, !.queued = TRUE]
  /\ UNCHANGED <<engine, cash, finder, pager, affinity>>

\* the loop of stop(): the next key of connections, up to 'await
\* blockBook.disconnect()', or the end of the loop
StopLoop(p) ==
  IF p.connections = {} THEN {[p EXCEPT !.pc = "stopped", !.cur = "none"]}
  ELSE {[p EXCEPT !.pc = "stopping", !.cur = u] : u \in p.connections}

\* stop(): removeIdFromQueue(walletInfo.id), clearTimeout(reconnectTimer), and
\* the loop up to its first await
Pool_Stop ==
  /\ pool.pc = "run"
  /\ pool.events < MaxPoolEvents
  /\ pool' \in StopLoop([pool EXCEPT !.queued = FALSE, !.timer = FALSE,
                                     !.events = @ + 1])
  /\ UNCHANGED <<engine, cash, finder, pager, affinity>>

\* stop() after 'await blockBook.disconnect()': connections.delete(uri),
\* serverStates.delete(uri), and the loop goes on
Pool_StopDisconnected ==
  /\ pool.pc = "stopping"
  /\ pool' \in StopLoop([pool EXCEPT
         !.connections = @ \ {pool.cur},
         !.serverStates = [u \in DOMAIN @ \ {pool.cur} |-> @[u]],
         !.live = @ \ {pool.cur}])
  /\ UNCHANGED <<engine, cash, finder, pager, affinity>>

NextPool ==
  \/ Pool_Refill
  \/ Pool_DoRefill
  \/ \E u \in Servers : Pool_Connected(u)
  \/ \E u \in Servers : Pool_ConnectFailed(u)
  \/ \E u \in Servers : Pool_Close(u)
  \/ Pool_Timer
  \/ Pool_OrphanTimer
  \/ Pool_Stop
  \/ Pool_StopDisconnected

SpecPool == InitPool /\ [][NextPool]_vars

\* ------------------------------------------------------- server affinity
\* ServerState: the addresses and txids a server has been asked for
Watched == 1..MaxWatched
Txids == 1..MaxTxids
ServerState == [addresses : SUBSET Watched, txids : SUBSET Txids]

\* 'if (serverState.addresses.has(address)) return true'
HoldsNever(set, item) == FALSE
Holds(set, item) == item \in set

\* 'for (const state of serverStates.values())
\*    if (state.addresses.has(address)) return false'
HeldByAny(states, field, item) ==
  \E u \in DOMAIN states : item \in states[u][field]

\* serverCanGetTx(uri, txid)
serverCanGetTx(states, uri, txid) ==
  IF uri \notin DOMAIN states THEN FALSE
  ELSE IF Holds(states[uri].txids, txid) THEN TRUE
  ELSE ~HeldByAny(states, "txids", txid)

\* serverCanGetAddress(uri, address)
serverCanGetAddress(states, uri, address) ==
  IF uri \notin DOMAIN states THEN FALSE
  ELSE IF Holds(states[uri].addresses, address) THEN TRUE
  ELSE ~HeldByAny(states, "addresses", address)

\* the server states of a pool: some of the servers have one
InitAffinity ==
  /\ gapLimit = 1
  /\ purpose = "Legacy"
  /\ hot = Key("bip32", 0, 0)
  /\ chain = <<>>
  /\ InitEngine
  /\ cash = NoCash
  /\ finder = NoFinder
  /\ pager = NoPager
  /\ pool = NoPool
  /\ \E U \in SUBSET Servers : \E st \in [U -> ServerState] :
       affinity = [NoAffinity EXCEPT !.pc = "run", !.serverStates = st]

\* the engine asks whether a server may fetch an address
Aff_CanGetAddress(uri, address) ==
  /\ affinity.pc # "off"
  /\ affinity' = [affinity EXCEPT
       !.pc = "address", !.uri = uri, !.item = address,
       !.res = serverCanGetAddress(affinity.serverStates, uri, address)]
  /\ UNCHANGED <<engine, cash, finder, pager, pool>>

\* the engine asks whether a server may fetch a transaction
Aff_CanGetTx(uri, txid) ==
  /\ affinity.pc # "off"
  /\ affinity' = [affinity EXCEPT
       !.pc = "tx", !.uri = uri, !.item = txid,
       !.res = serverCanGetTx(affinity.serverStates, uri, txid)]
  /\ UNCHANGED <<engine, cash, finder, pager, pool>>

NextAffinity ==
  \/ \E uri \in Servers, address \in Watched : Aff_CanGetAddress(uri, address)
  \/ \E uri \in Servers, txid \in Txids : Aff_CanGetTx(uri, txid)

SpecAffinity == InitAffinity /\ [][NextAffinity]_vars

NextCash ==
  \/ Cash_Encode
  \/ Cash_Decode

SpecCash == InitCash /\ [][NextCash]_vars

\* every setLookAhead and processAddress has returned and no call is queued
Quiescent ==
  /\ started
  /\ tasks = {}
  /\ mutex = <<>>
  /\ \A f \in Declared : ftask[f].pc = "done"

\* as Quiescent, but a format's task may have ended with an exception
Settled ==
  /\ started
  /\ tasks = {}
  /\ mutex = <<>>
  /\ \A f \in Declared : ftask[f].pc \in {"done", "failed"}

\* the model has room for every address the engine creates
RoomInv ==
  /\ \A l \in la : l.i < MaxIdx /\ l.fresh # Thrown
  /\ \A k \in DOMAIN addrs :
       \A i \in 0..k[3] : PathKnown(k[1], k[2], i)

\* ------------------------------------------------------------------- claims
\* the set of indices of a branch whose record is stored and unused
UnusedIdx(f, b) ==
  {i \in 0..(fetchAddressCountFromPathPartition(f, b) - 1) : ~Rec(Key(f, b, i)).used}

SmallestUnused(f, b) ==
  IF UnusedIdx(f, b) = {} THEN fetchAddressCountFromPathPartition(f, b)
  ELSE CHOOSE i \in UnusedIdx(f, b) : \A j \in UnusedIdx(f, b) : i <= j

\* C1: once the promise of start() has resolved, every supported branch of
\* every declared format holds at least freshIndex + gapLimit addresses
C1_LookaheadAfterStart ==
  started =>
    \A f \in Declared : \A b \in BranchSet(f) :
      fetchAddressCountFromPathPartition(f, b) >= getFreshIndex(f, b, TRUE) + gapLimit

\* C2: an address at index k that went from unused to used leaves, once the
\* engine is quiescent, at least k + 1 + gapLimit addresses on its branch
C2_GapLimitAfterUse ==
  Quiescent =>
    \A a \in flipped :
      fetchAddressCountFromPathPartition(a[1], a[2]) >= a[3] + 1 + gapLimit

\* C3: getFreshIndex with find = true is the smallest index whose record is
\* unused, or the address count when every record is used
C3_FreshIndexSmallestUnused ==
  \A f \in Declared : \A b \in BranchSet(f) :
    getFreshIndex(f, b, TRUE) = SmallestUnused(f, b)

\* C4: every address the facade's getFreshAddress returns has no record or a
\* record with used = false
C4_FreshAddressUnused ==
  obs.kind = "fresh" =>
    \A n \in 1..Len(obs.res) :
      ~(Rec(obs.res[n]).ex /\ Rec(obs.res[n]).used)

\* C5: after markAddressUsed of the address at index k, all indices below k
\* being used, getFreshAddress on that branch returns an index above k
C5_FreshAfterMark ==
  (obs.kind = "fresh" /\ obs.key # NoKey /\ obs.below) =>
    \A n \in 1..Len(obs.res) :
      (obs.res[n][1] = obs.key[1] /\ obs.res[n][2] = obs.key[2])
        => obs.res[n][3] > obs.key[3]

\* C6: the changeIndex the facade derives an address on is a supported branch
\* of the format; legacy and Airbitz formats use branch 0
C6_ChangeIndexSupported ==
  obs.kind = "fresh" =>
    \A n \in 1..Len(obs.res) : obs.res[n][2] \in BranchSet(obs.res[n][1])

\* C7: an empty wallet with gap limit G ends its synchronisation with exactly
\* G addresses (indices 0..G-1) on every supported branch, all unused with
\* balance 0, and its last ADDRESSES_CHECKED event carries the ratio 1
C7_EmptyWalletSync ==
  Quiescent =>
    /\ DOMAIN addrs = {k \in Keys : k[2] \in BranchSet(k[1]) /\ k[3] < gapLimit}
    /\ \A k \in DOMAIN addrs :
         addrs[k] = [ex |-> TRUE, path |-> TRUE, used |-> FALSE, balance |-> 0]
    /\ \A f \in Declared : \A b \in BranchSet(f) :
         fetchAddressCountFromPathPartition(f, b) = gapLimit
    /\ lastRatio[2] > 0
    /\ lastRatio[1] = lastRatio[2]

\* the two-format wallet has ended its synchronisation
C7_Witness ==
  /\ Quiescent
  /\ purpose = "Segwit"
  /\ processedCount = 4 * gapLimit

\* C8: wrapped-segwit, gap limit 5, index 3 of branch 0 has 2 transactions and
\* balance 1500: after the sync the record is used with balance 1500, branch 0
\* has 8 addresses and BALANCE_CHANGED 1500 was emitted
C8_ReceivedFundsSync ==
  Quiescent =>
    /\ Rec(hot).used
    /\ Rec(hot).balance = 1500
    /\ 1500 \in balEvents
    /\ fetchAddressCountFromPathPartition("bip49", 0) = 8

\* C9: when processAddressUtxos has completed, the stored UTXO ids of the
\* address are the ids the indexer returned to it
C9_StoredUtxosAreIndexers ==
  obs.kind = "utxos" => UtxosOf(obs.key) = obs.ret

\* C10 as stated: every record with used = true was reported with
\* txs + unconfirmedTxs > 0 by its last reconciliation
C10_UsedWasReported ==
  \A k \in DOMAIN addrs : addrs[k].used => LastReport(k) = "pos"

\* C10: every record with used = true was reported with txs + unconfirmedTxs > 0
\* by its last reconciliation, or markAddressUsed has run for it since
C10_UsedWasReportedOrMarked ==
  \A k \in DOMAIN addrs : addrs[k].used => (LastReport(k) = "pos" \/ k \in marked)

\* a record that the host marked used after a reconciliation found no history
C10_Witness ==
  \E k \in DOMAIN addrs : addrs[k].used /\ k \in marked /\ LastReport(k) = "zero"


\* C18: when a setLookAhead(format) returns, every supported branch of the
\* format holds the path indices [0, N) without a hole, and N is at least the
\* branch's fresh index plus the gap limit.
C18_LookaheadPostcondition ==
  obs.kind = "la" =>
    \A b \in BranchSet(obs.key[1]) :
      LET N == fetchAddressCountFromPathPartition(obs.key[1], b)
      IN /\ \A i \in 0..(N - 1) : PathKnown(obs.key[1], b, i)
         /\ N >= getFreshIndex(obs.key[1], b, TRUE) + gapLimit

\* C19: at most one setLookAhead is inside its body, and the invocation that
\* is about to create a record is at a key for which no setLookAhead has
\* created a record, so no record is created by two lookahead calls.
C19_LookaheadExclusive ==
  /\ Cardinality(la) <= 1
  /\ \A l \in la : l.pc = "save" /\ ~l.snap.ex => CurKey(l) \notin laCreated

\* a second setLookAhead waits while the first is about to create a record
C19_Witness ==
  \E l \in la :
    /\ l.pc = "save" /\ ~l.snap.ex
    /\ \E n \in 2..Len(mutex) : mutex[n].k = "la" /\ mutex[n] # l.req

\* C11: a BALANCE_CHANGED event is emitted exactly when the balance the
\* indexer answered differs from the balance that is stored at that moment,
\* also when invocations of processAddress for one address overlap.
C11_BalanceEventIffStoredDiffers ==
  obs.kind = "fetch" => (obs.below <=> Rec(obs.key).balance # obs.ci)

\* C15: every ADDRESSES_CHECKED ratio is in [0, 1]: processedCount never
\* exceeds the totalCount it is divided by.
C15_RatioInUnitInterval ==
  lastRatio = <<0, 0>> \/ (lastRatio[2] > 0 /\ lastRatio[1] <= lastRatio[2])

\* C12: after stop() no in-flight operation writes the store or emits an
\* event.
C12_NothingAfterStop ==
  [][stopped => UNCHANGED <<addrs, utxos, balEvents, lastRatio>>]_vars

\* C13: when the processing of one address has failed, the scan has still
\* processed every other stored address once all its work has ended.
C13_FailureIsolated ==
  Settled /\ failed # {} =>
    \A k \in DOMAIN addrs : k \notin failed => k \in addressesToWatch

\* C14: a processAddress that failed left the address record as it had read
\* it: used and balance are not written without the UTXOs and the lookahead.
C14_FailureLeavesNoPartialRecord ==
  obs.kind = "failed" =>
    Rec(obs.key).used = obs.below /\ Rec(obs.key).balance = obs.ci

\* C20: the setLookAhead inside its body is the holder of the mutex; when it
\* leaves its body, by its return or by an exception, it holds the mutex no
\* more; and the mutex always becomes free again, so every queued setLookAhead
\* and every dispatched processAddress gets it.
C20_LookaheadNeverDeadlocks ==
  /\ [](\A l \in la : Head(mutex) = l.req)
  /\ [][\A l \in la : (\A l2 \in la' : l2.req # l.req) =>
                          \A n \in 1..Len(mutex') : mutex'[n] # l.req]_vars
  /\ (mutex # <<>>) ~> (mutex = <<>>)

\* a processAddress that re-enters setLookAhead waits behind a dispatched
\* processAddress and another lookahead call
C20_Witness ==
  /\ Len(mutex) >= 2
  /\ \E n \in 2..Len(mutex) : mutex[n].k = "la" /\ mutex[n].org # "fmt"
  /\ \E n \in 1..Len(mutex) : mutex[n].k = "pa"

\* C16: addGapLimitAddresses stores a record without a path only when no
\* record exists for the address, and a processAddress that read a record
\* without a path never calls setLookAhead.
C16_ImportedOnlyWhenAbsent ==
  /\ obs.kind = "import" => ~obs.below
  /\ \A t \in tasks : t.pc = "la" => t.hasPath

\* C17: a cash address made by hashToCashAddress from a script hash of a
\* supported size, a type and a prefix is decoded by cashAddressToHash to the
\* same script hash and type, and its checksum is valid: the polymod of the
\* prefix and the payload is 0.
C17_CashAddressRoundTrip ==
  cash.pc = "decoded" =>
    /\ cash.info.ok
    /\ cash.info.scriptHash = cash.hash
    /\ cash.info.type = cash.type
    /\ BNeqn(polymod(prefixToArray(cash.prefix) \o <<0>>
                     \o decode(SubSeq(cash.address, Len(cash.prefix) + 2,
                                      Len(cash.address)))), 0)

\* the test's pubkey hash was converted to the address the test expects, and
\* back
C17_Witness ==
  /\ cash.pc = "decoded"
  /\ cash.hash = TestPubkeyHash
  /\ cash.address =
    <<"b", "i", "t", "c", "o", "i", "n", "c", "a", "s", "h", ":", "q", "r", "v", "c",
      "d", "m", "g", "p", "k", "7", "3", "z", "y", "f", "d", "8", "p", "m", "d", "l",
      "9", "w", "n", "u", "l", "d", "3", "6", "z", "h", "9", "n", "4", "g", "m", "s",
      "8", "s", "0", "u", "5", "9">>
\* C21: a setLookAhead saves the path of index i of a branch only after the
\* paths of all smaller indices of the branch were saved: the records with a
\* path come into being in strictly increasing order of addressIndex.
C21_CreatedInIndexOrder ==
  [][\A k \in pathSaved' \ pathSaved :
        \A j \in 0..(k[3] - 1) : Key(k[1], k[2], j) \in pathSaved]_vars

\* a lookahead that a processAddress called has extended a branch beyond the
\* addresses start() created
C21_Witness ==
  /\ flipped # {}
  /\ \E k \in pathSaved : k[3] >= gapLimit /\ Rec(k).path

\* C22: no step of the engine, of the host or of the indexer takes the used
\* flag of a stored address record from true back to false.
C22_UsedNeverReset ==
  [][\A k \in DOMAIN addrs : addrs[k].used => addrs'[k].used]_vars

\* C23: when the chain does not change after start(), the engine reaches a
\* state in which no processAddress and no setLookAhead is running or queued
\* and every format's scan has ended; it stays there, and no address record
\* is created or changed from then on.
C23_SyncTerminates ==
  /\ <>[](Quiescent /\ la = {})
  /\ [][Quiescent /\ la = {} => UNCHANGED <<addrs, watching>>]_vars

\* the engine is quiescent after a processAddress saw an address go from
\* unused to used, called setLookAhead, and the address that lookahead created
\* was dispatched and processed
C23_Witness ==
  /\ Quiescent /\ la = {}
  /\ flipped # {}
  /\ \E k \in addressesToWatch : k[3] >= gapLimit /\ k \in laCreated

\* the step-wise findFreshIndex returns what the recursive definition returns
FinderAgrees ==
  finder.pc \in {"done", "thrown"} =>
    finder.i = findFreshIndex(FinderFormat, FinderBranch, finder.start)

\* C24: a call of findFreshIndex on a branch of addressCount addresses with any
\* pattern of used flags, the store unchanged meanwhile, invokes itself at no
\* index twice, takes no backward step after a forward step, makes at most
\* addressCount + 1 invocations and at most three store reads in each, and it
\* is still running only while it has made at most addressCount invocations.
C24_FindFreshTerminates ==
  finder.pc # "off" =>
    LET addressCount == fetchAddressCountFromPathPartition(FinderFormat, FinderBranch)
    IN /\ ~finder.twice
       /\ ~finder.osc
       /\ finder.calls <= addressCount + 1
       /\ finder.reads <= 3 * finder.calls
       /\ finder.pc = "run" => finder.calls <= addressCount

\* a call has returned after backward steps and a forward step
C24_Witness ==
  /\ finder.pc = "done"
  /\ finder.back /\ finder.fwd
  /\ finder.calls >= 4

\* C25: the last subscription issued holds exactly the watch set; an address
\* is in the watch set from the moment its first processAddress has read its
\* record, and the processAddress calls of one address have issued exactly
\* one subscription, however they overlap.
C25_SubscriptionCoversWatchSet ==
  /\ lastSub = addressesToWatch
  /\ DOMAIN subsBy = addressesToWatch
  /\ \A k \in DOMAIN subsBy : subsBy[k] = 1
  /\ \A t \in tasks : t.pc # "read" => t.key \in addressesToWatch

\* two processAddress calls for one address overlap: the one that ran first
\* has subscribed, the other has not read the record yet and was not started
\* by a push
C25_Witness ==
  \E t1 \in tasks, t2 \in tasks :
    /\ t1.key = t2.key
    /\ t1.pc # "read" /\ t1.first
    /\ t2.pc = "read" /\ t2.org # "push"
    /\ Cardinality(lastSub) >= 2

\* the pages whose answer has arrived
Answered ==
  IF pager.pc = "wait" THEN Len(pager.fetched) - 1 ELSE Len(pager.fetched)

\* C26: the pages are requested in the order 1, 2, ... and none beyond
\* totalPages (none beyond page 1 if totalPages is missing); the call returns
\* when the last of them was answered; TXIDS_CHANGED was emitted for exactly
\* the answered pages that hold a transaction, in their order, each time with
\* the txids of that page and no others.
C26_PagesInOrder ==
  pager.pc # "off" =>
    LET last == IF pager.totalPages < 1 THEN 1 ELSE pager.totalPages
    IN /\ pager.fetched = [n \in 1..Len(pager.fetched) |-> n]
       /\ Len(pager.fetched) <= last
       /\ pager.pc = "done" <=> Answered = last
       /\ \A n \in 1..Len(pager.emitted) :
            /\ pager.emitted[n].map = PageTxids(pager.emitted[n].page)
            /\ pager.emitted[n].map # {}
            /\ n > 1 => pager.emitted[n - 1].page < pager.emitted[n].page
       /\ {pager.emitted[n].page : n \in 1..Len(pager.emitted)}
            = {q \in 1..Answered : PageTxids(q) # {}}

\* a call over three pages has returned; a page without transactions lies
\* between two pages with transactions
C26_Witness ==
  /\ pager.pc = "done"
  /\ pager.totalPages = 3
  /\ PageTxids(2) = {}
  /\ Len(pager.emitted) = 2

\* C27: below every address record that has used = true, every index of the
\* branch is the address of a processAddress call that has returned.
C27_BelowUsedInspected ==
  \A k \in DOMAIN addrs :
    addrs[k].used => \A j \in 0..(k[3] - 1) : Key(k[1], k[2], j) \in inspected

\* nothing is left to run: the scans have ended, no processAddress and no
\* setLookAhead is running or queued, and every addGapLimitAddresses has returned
Idle ==
  /\ Quiescent
  /\ la = {}
  /\ \A m \in imports : m.pc = "done"

\* C28: when nothing is left to run after start(), every address record that
\* has a path on a supported branch has been processed: it is in the watch set
\* and a subscription holds it.
C28_PathAddressesProcessed ==
  Idle =>
    \A k \in DOMAIN addrs :
      addrs[k].path /\ k[2] \in BranchSet(k[1]) =>
        k \in addressesToWatch /\ k \in lastSub

\* C29: the uris that have a server state are the uris that have a connection.
C29_StatesMatchConnections ==
  pool.pc # "off" => DOMAIN pool.serverStates = pool.connections

\* C30: once stop() has returned, connections and serverStates are empty, no
\* reconnect timer is scheduled and no refill is queued.
C30_EmptyAfterStop ==
  pool.pc = "stopped" =>
    /\ pool.connections = {}
    /\ DOMAIN pool.serverStates = {}
    /\ ~pool.timer /\ pool.orphans = 0
    /\ ~pool.queued

\* the sets of the server states a query is about
AskedField == IF affinity.pc = "address" THEN "addresses" ELSE "txids"
AskedHolders ==
  {u \in DOMAIN affinity.serverStates :
     affinity.item \in affinity.serverStates[u][AskedField]}

\* C31: serverCanGetAddress(uri, a) and serverCanGetTx(uri, txid) return true
\* exactly when uri has a server state and either that state holds the item
\* or no server state holds it; so when some server holds the item only its
\* holders are allowed, and a uri without a state is never allowed.
C31_ServerAffinity ==
  affinity.pc \in {"address", "tx"} =>
    /\ affinity.res <=>
         /\ affinity.uri \in DOMAIN affinity.serverStates
         /\ affinity.uri \in AskedHolders \/ AskedHolders = {}
    /\ AskedHolders # {} /\ affinity.res => affinity.uri \in AskedHolders
    /\ affinity.uri \notin DOMAIN affinity.serverStates => ~affinity.res

\* a server that holds the address is allowed while another server, which
\* has a state, is refused
C31_Witness ==
  /\ affinity.pc = "address"
  /\ affinity.res
  /\ affinity.uri \in AskedHolders
  /\ DOMAIN affinity.serverStates \ AskedHolders # {}

\* C32: a record that has a path keeps it, and a save of addGapLimitAddresses
\* leaves a record that has a path as it is: its path, used flag and balance
\* are never replaced by those of a pathless or new record.
C32_PathfulNeverOverwritten ==
  [][\A k \in DOMAIN addrs :
       addrs[k].path =>
         /\ k \in DOMAIN addrs' /\ addrs'[k].path
         /\ obs'.kind = "import" => addrs'[k] = addrs[k]]_vars

====
